---- MODULE Spec2Model ----
(***************************************************************************)
(* The graphics command queue of internal/graphicscommand (command.go) and *)
(* the constants of internal/graphics (vertex.go): enqueueing with merge   *)
(* and chunk splitting, the uniform prepender with its float arena, and    *)
(* Flush with its chunked replay against a graphics driver that may fail.  *)
(*                                                                         *)
(* float32 values are modelled exactly: vertex floats are integers, the    *)
(* floats of the uniforms are reduced fractions <<num, den>>.  The inputs  *)
(* are chosen so that every quotient the code computes is a dyadic         *)
(* rational, which float32 represents without rounding.                    *)
(***************************************************************************)
EXTENDS Integers, Sequences, FiniteSets, TLC

(***************************************************************************)
(* Bounds of the model.                                                    *)
(***************************************************************************)
\* Width in bits of the index type (uint16 in the source).
IndexBits == 3
\* Number of operations (enqueues and flushes) of one behaviour.
MaxOps == 4
\* Number of draws of one behaviour of the merge specification.
MergeOps == 2
\* Capacity of the pool of draw-triangles commands (1024 in the source), scaled so
\* that a flush can fill the pool.
PoolCap == 2
\* Number of times the backing array of the vertices backend may double beyond
\* its smallest size.
MaxDoublings == 2
\* Number of slices requested from the vertices backend in one epoch.
MaxSlices == 3
\* Binary digits after the point of the coordinates given to
\* adjustDestinationPixel: a coordinate is a multiple of 1 / 2^FracBits.
FracBits == 6
\* Number of successive applications of adjustDestinationPixel.
MaxApplications == 2

(***************************************************************************)
(* Constants of the program.                                               *)
(***************************************************************************)
ShaderImageCount == 4
PreservedUniformVariablesCount == 8
VertexFloatCount == 8
MinFloat32sCap == 16
mergin == 1
MinBackendVertices == 128
maxNotFullyUsedTime == 60
\* Binary digits of the significand of a float32.
Float32Precision == 24

\* 1 << IndexBits: the number of values of the index type.
IndexMod == 2 ^ IndexBits
\* (1 << 16) / 3 * 3 with the index width of the model.
IndicesCount == (IndexMod \div 3) * 3

(***************************************************************************)
(* float32 values of the uniforms: reduced fractions.                      *)
(***************************************************************************)
RECURSIVE GCD(_, _)
GCD(a, b) == IF b = 0 THEN a ELSE GCD(b, a % b)

Abs(a) == IF a < 0 THEN -a ELSE a

\* float32(a) / float32(b), b > 0.
FDiv(a, b) ==
  LET g == GCD(Abs(a), b) IN <<a \div g, b \div g>>

\* float32(a)
F(a) == <<a, 1>>

\* f / float32(b) for a fraction f.
FDivF(f, b) == FDiv(f[1], f[2] * b)

\* An element of a scratch slice that the code leaves as the arena holds it.
Keep == <<0, 0>>

max(a, b) == IF a < b THEN b ELSE a

RECURSIVE roundUpPower2From(_, _)
roundUpPower2From(p2, x) == IF p2 < x THEN roundUpPower2From(p2 * 2, x) ELSE p2

roundUpPower2(x) == roundUpPower2From(1, x)

Zeros(n) == [i \in 1..n |-> F(0)]

(***************************************************************************)
(* Images, shaders, regions.                                               *)
(***************************************************************************)
NilImage == [id |-> 0, w |-> 0, h |-> 0]

Image(id, w, h) == [id |-> id, w |-> w, h |-> h]

\* A shader and the uniform variables (1-based positions) its program uses.
Shader(id, used) == [id |-> id, used |-> used]

Region(x, y, w, h) == [X |-> x, Y |-> y, Width |-> w, Height |-> h]

(***************************************************************************)
(* The state.                                                              *)
(***************************************************************************)
VARIABLES
  commands,            \* q.commands
  vertices,            \* q.vertices
  indices,             \* q.indices
  tmpNumVertexFloats,  \* q.tmpNumVertexFloats
  tmpNumIndices,       \* q.tmpNumIndices
  pool,                \* len(q.drawTrianglesCommandPool.pool)
  float32sBuffer,      \* q.float32sBuffer: [arr: backing array, len: length]
  calls,               \* driver calls of the last Flush, in order
  ret,                 \* outcome of the last operation
  submitted,           \* draws enqueued since the queue was last reset, each with
                       \* the outcome of the capacity test, its rebasing offset
                       \* and the number of the operation that enqueued it
  crashed,             \* the process has panicked
  nops                 \* operations performed

\* The vertices backend of internal/graphics (vertex.go).
VARIABLES
  backend,             \* len(v.backend)
  pos,                 \* v.pos
  notFullyUsedTime,    \* v.notFullyUsedTime
  mutex,               \* v.m: the thread that holds the mutex, 0 when it is free
  epochSlices,         \* ranges returned by slice since pos was last set to zero
  streak,              \* consecutive windows that left the counter incremented
  bret,                \* outcome of the last operation of the backend
  pc                   \* for each thread, its position in slice or lockAndReset

\* A destination coordinate passed to adjustDestinationPixel (vertex.go).
VARIABLES
  pixel,               \* the argument x
  adjusted             \* the values returned by the successive applications

avars == <<pixel, adjusted>>

\* The position of a flush that is in progress (flush of command.go, followed
\* loop iteration by loop iteration).
VARIABLES
  flushLoop            \* [at: "idle", "begun" (Begin succeeded) or "chunk" (an
                       \* iteration of the loop over the chunks has ended), cs,
                       \* vs, es: the locals of flush, nc: the commands of the
                       \* last chunk, endFrame]

fvars == <<flushLoop>>

NotFlushing == [at |-> "idle"]

bvars == <<backend, pos, notFullyUsedTime, mutex, epochSlices, streak, bret, pc>>

qvars == <<commands, vertices, indices, tmpNumVertexFloats, tmpNumIndices, pool,
           float32sBuffer, calls, ret, submitted, crashed, nops>>

vars == <<qvars, bvars, avars, fvars>>

\* The threads that call the vertices backend.
Threads == {1, 2}

queue == <<commands, vertices, indices, tmpNumVertexFloats, tmpNumIndices>>

NoErr == [call |-> "none", at |-> 0]

InitQueueAndBackend ==
  /\ commands = <<>>
  /\ vertices = <<>>
  /\ indices = <<>>
  /\ tmpNumVertexFloats = 0
  /\ tmpNumIndices = 0
  /\ pool = 0
  /\ float32sBuffer = [arr |-> <<>>, len |-> 0]
  /\ calls = <<>>
  /\ ret = [op |-> "init"]
  /\ submitted = <<>>
  /\ crashed = FALSE
  /\ nops = 0
  /\ backend = 0
  /\ pos = 0
  /\ notFullyUsedTime = 0
  /\ mutex = 0
  /\ epochSlices = <<>>
  /\ streak = 0
  /\ bret = [op |-> "init"]
  /\ pc = [t \in Threads |-> [at |-> "idle"]]
  /\ flushLoop = NotFlushing

Init ==
  /\ InitQueueAndBackend
  /\ pixel = 0
  /\ adjusted = <<>>

(***************************************************************************)
(* The float arena and the uniform slices.                                 *)
(*                                                                         *)
(* A uniform slice of a queued command is a Go slice: either it still      *)
(* points into the arena's current backing array (live: offset and length, *)
(* its elements are whatever the array holds now), or into an array the    *)
(* arena has left behind or the caller's own memory, which nothing writes  *)
(* any more (its elements are the value val).                              *)
(***************************************************************************)
LiveSlice(off, n) == [live |-> TRUE, off |-> off, n |-> n, val |-> <<>>]

ValueSlice(v) == [live |-> FALSE, off |-> 0, n |-> Len(v), val |-> v]

NilSlice == ValueSlice(<<>>)

\* The elements of slice s, arr being the arena's current backing array.
SliceVal(s, arr) == IF s.live THEN SubSeq(arr, s.off + 1, s.off + s.n) ELSE s.val

UniformVals(us, arr) == [i \in 1..Len(us) |-> SliceVal(us[i], arr)]

\* A slice once the arena moves to a new backing array: its array is then
\* written by nobody.
Detach(s, arr) == IF s.live THEN ValueSlice(SliceVal(s, arr)) ELSE s

DetachAll(us, arr) == [i \in 1..Len(us) |-> Detach(us[i], arr)]

DetachCommand(c, arr) ==
  IF c.kind = "draw" THEN [c EXCEPT !.uniforms = DetachAll(@, arr)] ELSE c

\* allocFloat32s(n) with n = Len(w), followed by the assignments the caller
\* makes through the returned slice: element i becomes w[i] unless w[i] is Keep.
\* st: [arr, len] the arena, [cmds] the queued commands, [out] the slices
\* allocated so far for the draw being enqueued.
allocFloat32s(st, w) ==
  LET n == Len(w)
      grow == st.len + n > Len(st.arr)
      arr0 == IF grow
              THEN Zeros(max(roundUpPower2(st.len + n), MinFloat32sCap))
              ELSE st.arr
      len0 == IF grow THEN 0 ELSE st.len
      arr1 == SubSeq(arr0, 1, len0)
              \o [i \in 1..n |-> IF w[i] # Keep THEN w[i] ELSE arr0[len0 + i]]
              \o SubSeq(arr0, len0 + n + 1, Len(arr0))
  IN [arr |-> arr1,
      len |-> len0 + n,
      cmds |-> IF grow
               THEN [k \in 1..Len(st.cmds) |-> DetachCommand(st.cmds[k], st.arr)]
               ELSE st.cmds,
      out |-> Append(IF grow THEN DetachAll(st.out, st.arr) ELSE st.out,
                     LiveSlice(len0, n))]

\* The source texture sizes as the loop over srcs writes them.
SourceSizes(srcs) ==
  [k \in 1..(2 * ShaderImageCount) |->
    LET src == srcs[(k + 1) \div 2] IN
    IF src = NilImage THEN Keep
    ELSE IF k % 2 = 1 THEN F(src.w) ELSE F(src.h)]

\* srcRegion and offsets after the division by the size of srcs[0].
NormSrcRegion(srcs, r) ==
  IF srcs[1] # NilImage
  THEN [X |-> FDivF(r.X, srcs[1].w), Y |-> FDivF(r.Y, srcs[1].h),
        Width |-> FDivF(r.Width, srcs[1].w), Height |-> FDivF(r.Height, srcs[1].h)]
  ELSE r

NormOffsets(srcs, offsets) ==
  IF srcs[1] # NilImage
  THEN [i \in 1..Len(offsets) |->
         <<FDivF(offsets[i][1], srcs[1].w), FDivF(offsets[i][2], srcs[1].h)>>]
  ELSE offsets

ProjectionMatrix(dw, dh) ==
  <<FDiv(2, dw), F(0), F(0), F(0),
    F(0), FDiv(2, dh), F(0), F(0),
    F(0), F(0), F(1), F(0),
    F(-1), F(-1), F(0), F(1)>>

\* prependPreservedUniforms that puts the preserved entries after the uniforms of
\* the caller.
prependPreservedUniforms_UserFirst(st, uniforms, dst, srcs, offsets, dstRegion, srcRegion) ==
  LET dw == dst.w
      dh == dst.h
      s1 == allocFloat32s(st, <<F(dw), F(dh)>>)
      s2 == allocFloat32s(s1, SourceSizes(srcs))
      s3 == allocFloat32s(s2, <<FDiv(dstRegion.X, dw), FDiv(dstRegion.Y, dh)>>)
      s4 == allocFloat32s(s3, <<FDiv(dstRegion.Width, dw), FDiv(dstRegion.Height, dh)>>)
      sr == NormSrcRegion(srcs, srcRegion)
      os == NormOffsets(srcs, offsets)
      s5 == allocFloat32s(s4, [k \in 1..(2 * Len(os)) |-> os[(k + 1) \div 2][2 - (k % 2)]])
      s6 == allocFloat32s(s5, <<sr.X, sr.Y>>)
      s7 == allocFloat32s(s6, <<sr.Width, sr.Height>>)
      s8 == allocFloat32s(s7, ProjectionMatrix(dw, dh))
  IN [s8 EXCEPT !.out = [i \in 1..Len(uniforms) |-> ValueSlice(uniforms[i])] \o @]

\* prependPreservedUniforms: the arena after the eight allocations, with the
\* full uniform list in out.
prependPreservedUniforms(st, uniforms, dst, srcs, offsets, dstRegion, srcRegion) ==
  LET dw == dst.w
      dh == dst.h
      s1 == allocFloat32s(st, <<F(dw), F(dh)>>)
      s2 == allocFloat32s(s1, SourceSizes(srcs))
      s3 == allocFloat32s(s2, <<FDiv(dstRegion.X, dw), FDiv(dstRegion.Y, dh)>>)
      s4 == allocFloat32s(s3, <<FDiv(dstRegion.Width, dw), FDiv(dstRegion.Height, dh)>>)
      sr == NormSrcRegion(srcs, srcRegion)
      os == NormOffsets(srcs, offsets)
      s5 == allocFloat32s(s4, [k \in 1..(2 * Len(os)) |-> os[(k + 1) \div 2][2 - (k % 2)]])
      s6 == allocFloat32s(s5, <<sr.X, sr.Y>>)
      s7 == allocFloat32s(s6, <<sr.Width, sr.Height>>)
      s8 == allocFloat32s(s7, ProjectionMatrix(dw, dh))
  IN [s8 EXCEPT !.out = @ \o [i \in 1..Len(uniforms) |-> ValueSlice(uniforms[i])]]

\* shader.ir.FilterUniformVariables: the entries the program does not use
\* become nil.
FilterUniformVariables(shader, uniforms) ==
  [i \in 1..Len(uniforms) |-> IF i \in shader.used THEN uniforms[i] ELSE NilSlice]

(***************************************************************************)
(* The merge predicate.                                                    *)
(***************************************************************************)
\* float32 values extended with the infinities: <<sign of infinity, value>>.
posInf32 == <<1, 0>>
negInf32 == <<-1, 0>>
Fin(x) == <<0, x>>

\* a < b
LtExt(a, b) == a[1] < b[1] \/ (a[1] = 0 /\ b[1] = 0 /\ a[2] < b[2])

\* a + m for a finite m
AddExt(a, m) == IF a[1] = 0 THEN <<0, a[2] + m>> ELSE a

RECURSIVE dstRegionFrom(_, _, _)
dstRegionFrom(vs, i, r) ==
  IF i >= Len(vs) \div VertexFloatCount THEN r
  ELSE LET x == Fin(vs[VertexFloatCount * i + 1])
           y == Fin(vs[VertexFloatCount * i + 2])
       IN dstRegionFrom(vs, i + 1,
            [minX |-> IF LtExt(x, r.minX) THEN x ELSE r.minX,
             minY |-> IF LtExt(y, r.minY) THEN y ELSE r.minY,
             maxX |-> IF LtExt(r.maxX, x) THEN x ELSE r.maxX,
             maxY |-> IF LtExt(r.maxY, y) THEN y ELSE r.maxY])

dstRegionFromVertices(vs) ==
  dstRegionFrom(vs, 0, [minX |-> posInf32, minY |-> posInf32,
                        maxX |-> negInf32, maxY |-> negInf32])

\* mightOverlapDstRegions without the margin.
mightOverlapDstRegions_NoMargin(vertices1, vertices2) ==
  LET r1 == dstRegionFromVertices(vertices1)
      r2 == dstRegionFromVertices(vertices2)
  IN /\ LtExt(r1.minX, r2.maxX)
     /\ LtExt(r2.minX, r1.maxX)
     /\ LtExt(r1.minY, r2.maxY)
     /\ LtExt(r2.minY, r1.maxY)

mightOverlapDstRegions(vertices1, vertices2) ==
  LET r1 == dstRegionFromVertices(vertices1)
      r2 == dstRegionFromVertices(vertices2)
  IN /\ LtExt(r1.minX, AddExt(r2.maxX, mergin))
     /\ LtExt(r2.minX, AddExt(r1.maxX, mergin))
     /\ LtExt(r1.minY, AddExt(r2.maxY, mergin))
     /\ LtExt(r2.minY, AddExt(r1.maxY, mergin))

\* The comparison of the uniform lists, element by element.
SameUniforms(cu, u) ==
  /\ Len(cu) = Len(u)
  /\ \A i \in 1..Len(cu) :
       /\ Len(cu[i]) = Len(u[i])
       /\ \A j \in 1..Len(cu[i]) : cu[i][j] = u[i][j]

\* c.CanMergeWithDrawTrianglesCommand(...); cvertices and cuniforms are the
\* elements of the slices c.vertices and c.uniforms.
CanMergeWithDrawTrianglesCommand(c, cvertices, cuniforms, dst, srcs, verts, blend, dstRegion, shader, uniforms, evenOdd) ==
  IF c.shader # shader THEN FALSE
  ELSE IF ~SameUniforms(cuniforms, uniforms) THEN FALSE
  ELSE IF c.dst # dst THEN FALSE
  ELSE IF c.srcs # srcs THEN FALSE
  ELSE IF c.blend # blend THEN FALSE
  ELSE IF c.dstRegion # dstRegion THEN FALSE
  ELSE IF c.evenOdd \/ evenOdd
       THEN IF c.evenOdd /\ evenOdd
            THEN ~mightOverlapDstRegions(cvertices, verts)
            ELSE FALSE
  ELSE TRUE

(***************************************************************************)
(* Enqueueing.                                                             *)
(***************************************************************************)
\* appendIndices that appends the indices as submitted, without the offset.
appendIndices_NoRebase(q, ix, offset) == q \o ix

appendIndices(q, ix, offset) ==
  q \o [i \in 1..Len(ix) |-> (ix[i] + offset) % IndexMod]

\* mustUseDifferentVertexBuffer that tests the vertex floats only.
mustUseDifferentVertexBuffer_VerticesOnly(nextNumVertexFloats, nextNumIndices) ==
  nextNumVertexFloats > IndicesCount * VertexFloatCount

mustUseDifferentVertexBuffer(nextNumVertexFloats, nextNumIndices) ==
  \/ nextNumVertexFloats > IndicesCount * VertexFloatCount
  \/ nextNumIndices > IndicesCount

\* drawTrianglesCommandPool.get: the length of the pool afterwards.
poolGet(p) == IF p = 0 THEN 0 ELSE p - 1

\* drawTrianglesCommandPool.put without the test of the capacity.
poolPut_Unbounded(p) == p + 1

\* drawTrianglesCommandPool.put: the length of the pool afterwards.
poolPut(p) == IF p >= PoolCap THEN p ELSE p + 1

\* lastVertices taking the first n elements of q.vertices.
lastVertices_Prefix(vs, n) == [start |-> 0, len |-> n]

\* q.lastVertices(n): the range of q.vertices, as [start, len].
lastVertices(vs, n) == [start |-> Len(vs) - n, len |-> n]

\* The elements of a command's vertices slice.
CommandVertices(c, vs) == SubSeq(vs, c.vertices.start + 1, c.vertices.start + c.vertices.len)

\* NumVertices counting vertices instead of vertex floats.
numVertices_InVertices(c) == c.vertices.len \div VertexFloatCount

numVertices(c) == c.vertices.len

numIndices(c) == IF c.kind = "draw" THEN c.nindices ELSE 0

\* The incoming draw is compared with the last queued command.
Compared(split, cmds) ==
  /\ ~split
  /\ 0 < Len(cmds)
  /\ cmds[Len(cmds)].kind = "draw"

\* The draw d is merged into the last queued command: split is the outcome of the
\* capacity test, cmds the queue, vs the queue's vertices after the append, arr the
\* arena, uniforms the filtered uniform list of d.
Merges(split, cmds, vs, arr, d, uniforms) ==
  /\ Compared(split, cmds)
  /\ LET last == cmds[Len(cmds)] IN
     CanMergeWithDrawTrianglesCommand(
       last,
       CommandVertices(last, vs),
       UniformVals(last.uniforms, arr),
       d.dst, d.srcs, d.vertices, d.blend, d.dstRegion, d.shader,
       UniformVals(uniforms, arr), d.evenOdd)

\* The check against the number of index values instead of IndicesCount.
TooManyIndices_IndexMod(ix) == Len(ix) > IndexMod

\* The check of the index count at the head of EnqueueDrawTrianglesCommand.
TooManyIndices(ix) == Len(ix) > IndicesCount

EnqueueDrawTrianglesCommand(d) ==
  /\ UNCHANGED <<bvars, avars, fvars>>
  /\ ~crashed
  /\ nops < MaxOps
  /\ nops' = nops + 1
  /\ calls' = <<>>
  /\ IF TooManyIndices(d.indices)
     THEN /\ crashed' = TRUE
          /\ ret' = [op |-> "EnqueueDrawTrianglesCommand", panic |-> TRUE, d |-> d]
          /\ UNCHANGED <<queue, pool, float32sBuffer, submitted>>
     ELSE \E st \in {prependPreservedUniforms(
                        [arr |-> float32sBuffer.arr, len |-> float32sBuffer.len,
                         cmds |-> commands, out |-> <<>>],
                        d.uniforms, d.dst, d.srcs, d.offsets, d.dstRegion, d.srcRegion)} :
          LET split == mustUseDifferentVertexBuffer(
                         tmpNumVertexFloats + Len(d.vertices),
                         tmpNumIndices + Len(d.indices))
              nvf == IF split THEN 0 ELSE tmpNumVertexFloats
              nix == IF split THEN 0 ELSE tmpNumIndices
              vs == vertices \o d.vertices
              offset == (nvf \div VertexFloatCount) % IndexMod
              uniforms == FilterUniformVariables(d.shader, st.out)
              merged == Merges(split, st.cmds, vs, st.arr, d, uniforms)
              last == st.cmds[Len(st.cmds)]
          IN /\ vertices' = vs
             /\ indices' = appendIndices(indices, d.indices, offset)
             /\ tmpNumVertexFloats' = nvf + Len(d.vertices)
             /\ tmpNumIndices' = nix + Len(d.indices)
             /\ float32sBuffer' = [arr |-> st.arr, len |-> st.len]
             /\ IF merged
                THEN /\ commands' =
                          [st.cmds EXCEPT ![Len(st.cmds)] =
                            [last EXCEPT
                              !.vertices = lastVertices(vs, Len(d.vertices) + numVertices(last)),
                              !.nindices = @ + Len(d.indices)]]
                     /\ pool' = pool
                ELSE /\ commands' = Append(st.cmds,
                          [kind |-> "draw", dst |-> d.dst, srcs |-> d.srcs,
                           vertices |-> lastVertices(vs, Len(d.vertices)),
                           nindices |-> Len(d.indices), blend |-> d.blend,
                           dstRegion |-> d.dstRegion, shader |-> d.shader,
                           uniforms |-> uniforms, evenOdd |-> d.evenOdd])
                     /\ pool' = poolGet(pool)
             /\ submitted' = Append(submitted,
                  [d |-> d, split |-> split, offset |-> offset, at |-> nops + 1])
             /\ crashed' = FALSE
             /\ ret' = [op |-> "EnqueueDrawTrianglesCommand", panic |-> FALSE, d |-> d,
                        split |-> split, merged |-> merged,
                        built |-> UniformVals(st.out, st.arr),
                        uniforms |-> UniformVals(uniforms, st.arr),
                        compared |-> Compared(split, st.cmds),
                        last |-> IF Compared(split, st.cmds)
                                 THEN [c |-> last,
                                       vertices |-> CommandVertices(last, vs),
                                       uniforms |-> UniformVals(last.uniforms, st.arr)]
                                 ELSE [c |-> 0]]

\* Enqueue of a command other than a draw-triangles command.
Enqueue(c) ==
  /\ UNCHANGED <<bvars, avars, fvars>>
  /\ ~crashed
  /\ nops < MaxOps
  /\ nops' = nops + 1
  /\ calls' = <<>>
  /\ commands' = Append(commands, c)
  /\ ret' = [op |-> "Enqueue"]
  /\ UNCHANGED <<vertices, indices, tmpNumVertexFloats, tmpNumIndices, pool,
                 float32sBuffer, submitted, crashed>>

(***************************************************************************)
(* Flush.                                                                  *)
(*                                                                         *)
(* The driver is an input: failAt is the position, among the calls of one  *)
(* flush (Begin is call 1), of the call the driver fails, 0 for none, and  *)
(* endFails tells whether End reports an error.                            *)
(***************************************************************************)
\* Whether Exec of command c reaches a driver call that can report an error.
Fallible(c) ==
  IF c.kind = "draw" THEN c.nindices # 0 ELSE c.fallible

\* ChunkOf with the capacity test applied to the first command of a chunk too.
RECURSIVE ChunkOf_TestsFirst(_, _, _, _, _)
ChunkOf_TestsFirst(cs, k, nv, ne, nc) ==
  IF k > Len(cs) THEN [nv |-> nv, ne |-> ne, nc |-> nc, panic |-> FALSE]
  ELSE LET c == cs[k] IN
       IF c.kind = "draw"
       THEN IF numIndices(c) > IndicesCount
            THEN [nv |-> nv, ne |-> ne, nc |-> nc, panic |-> TRUE]
            ELSE IF mustUseDifferentVertexBuffer(nv + numVertices(c), ne + numIndices(c))
            THEN [nv |-> nv, ne |-> ne, nc |-> nc, panic |-> FALSE]
            ELSE ChunkOf_TestsFirst(cs, k + 1, nv + numVertices(c), ne + numIndices(c), nc + 1)
       ELSE ChunkOf_TestsFirst(cs, k + 1, nv, ne, nc + 1)

\* The inner loop over cs that forms one chunk: the vertex floats, indices and
\* commands of the chunk, or the panic of the index-count check.
RECURSIVE ChunkOf(_, _, _, _, _)
ChunkOf(cs, k, nv, ne, nc) ==
  IF k > Len(cs) THEN [nv |-> nv, ne |-> ne, nc |-> nc, panic |-> FALSE]
  ELSE LET c == cs[k] IN
       IF c.kind = "draw"
       THEN IF numIndices(c) > IndicesCount
            THEN [nv |-> nv, ne |-> ne, nc |-> nc, panic |-> TRUE]
            ELSE IF nc > 0 /\ mustUseDifferentVertexBuffer(nv + numVertices(c), ne + numIndices(c))
            THEN [nv |-> nv, ne |-> ne, nc |-> nc, panic |-> FALSE]
            ELSE ChunkOf(cs, k + 1, nv + numVertices(c), ne + numIndices(c), nc + 1)
       ELSE ChunkOf(cs, k + 1, nv, ne, nc + 1)

\* The execution loop that passes over the commands other than draw-triangles
\* commands without executing them.
RECURSIVE ExecChunk_DrawsOnly(_, _, _, _, _, _, _)
ExecChunk_DrawsOnly(cs, k, nc, indexOffset, base, log, failAt) ==
  IF k > nc THEN [log |-> log, err |-> NoErr]
  ELSE IF cs[k].kind # "draw"
  THEN ExecChunk_DrawsOnly(cs, k + 1, nc, indexOffset, base, log, failAt)
  ELSE ExecChunk_DrawsOnly(cs, k + 1, nc, indexOffset + cs[k].nindices, base,
         Append(log, [op |-> "Exec", ok |-> TRUE, pos |-> base + k, kind |-> "draw",
                      nindices |-> cs[k].nindices, indexOffset |-> indexOffset]),
         failAt)

\* ExecChunk in which a command of another kind doubles the index offset.
RECURSIVE ExecChunk_OffsetKeptByOthers(_, _, _, _, _, _, _)
ExecChunk_OffsetKeptByOthers(cs, k, nc, indexOffset, base, log, failAt) ==
  IF k > nc THEN [log |-> log, err |-> NoErr]
  ELSE LET c == cs[k]
           fails == Fallible(c) /\ Len(log) + 1 = failAt
           log1 == Append(log, [op |-> "Exec", ok |-> ~fails, pos |-> base + k,
                                kind |-> c.kind, nindices |-> numIndices(c),
                                indexOffset |-> indexOffset])
       IN IF fails
          THEN [log |-> log1, err |-> [call |-> "Exec", at |-> Len(log1)]]
          ELSE ExecChunk_OffsetKeptByOthers(cs, k + 1, nc,
                         IF c.kind = "draw" THEN indexOffset + numIndices(c)
                         ELSE 2 * indexOffset,
                         base, log1, failAt)

\* The loop that executes the commands cs[k..nc] of a chunk; base is the number of
\* commands of the earlier chunks.
RECURSIVE ExecChunk(_, _, _, _, _, _, _)
ExecChunk(cs, k, nc, indexOffset, base, log, failAt) ==
  IF k > nc THEN [log |-> log, err |-> NoErr]
  ELSE LET c == cs[k]
           fails == Fallible(c) /\ Len(log) + 1 = failAt
           log1 == Append(log, [op |-> "Exec", ok |-> ~fails, pos |-> base + k,
                                kind |-> c.kind, nindices |-> numIndices(c),
                                indexOffset |-> indexOffset])
       IN IF fails
          THEN [log |-> log1, err |-> [call |-> "Exec", at |-> Len(log1)]]
          ELSE ExecChunk(cs, k + 1, nc,
                         IF c.kind = "draw" THEN indexOffset + numIndices(c) ELSE indexOffset,
                         base, log1, failAt)

\* The loop over the chunks: cs, vs and es are what is left of the commands, the
\* vertices and the indices.
RECURSIVE FlushChunks(_, _, _, _, _, _)
FlushChunks(cs, vs, es, base, log, failAt) ==
  IF Len(cs) = 0 THEN [log |-> log, err |-> NoErr, panic |-> FALSE]
  ELSE LET ch == ChunkOf(cs, 1, 0, 0, 0)
           log1 == IF 0 < ch.ne
                   THEN Append(log, [op |-> "SetVertices", ok |-> Len(log) + 1 # failAt,
                                     vertices |-> SubSeq(vs, 1, ch.nv),
                                     indices |-> SubSeq(es, 1, ch.ne)])
                   ELSE log
           vs1 == IF 0 < ch.ne THEN SubSeq(vs, ch.nv + 1, Len(vs)) ELSE vs
           es1 == IF 0 < ch.ne THEN SubSeq(es, ch.ne + 1, Len(es)) ELSE es
           ex == ExecChunk(cs, 1, ch.nc, 0, base, log1, failAt)
       IN IF ch.panic THEN [log |-> log, err |-> NoErr, panic |-> TRUE]
          ELSE IF 0 < ch.ne /\ Len(log1) = failAt
          THEN [log |-> log1, err |-> [call |-> "SetVertices", at |-> Len(log1)], panic |-> FALSE]
          ELSE IF ex.err # NoErr
          THEN [log |-> ex.log, err |-> ex.err, panic |-> FALSE]
          ELSE FlushChunks(SubSeq(cs, ch.nc + 1, Len(cs)), vs1, es1, base + ch.nc, ex.log, failAt)

\* The loop of the deferred function that returns the draw-triangles commands
\* to the pool.
RECURSIVE PutAll(_, _, _)
PutAll(cs, k, p) ==
  IF k > Len(cs) THEN p
  ELSE PutAll(cs, k + 1, IF cs[k].kind = "draw" THEN poolPut(p) ELSE p)

\* flush with the cleanup after the loop instead of deferred: an error of
\* SetVertices or Exec returns before End and before the reset of the queue.
flush_CleanupNotDeferred(endFrame, failAt, endFails) ==
  IF Len(commands) = 0 /\ ~endFrame
  THEN [log |-> <<>>, err |-> NoErr, panic |-> FALSE, noop |-> TRUE, reset |-> FALSE]
  ELSE IF failAt = 1
  THEN [log |-> <<[op |-> "Begin", ok |-> FALSE]>>, err |-> [call |-> "Begin", at |-> 1],
        panic |-> FALSE, noop |-> FALSE, reset |-> FALSE]
  ELSE LET r == FlushChunks(commands, vertices, indices, 0, <<[op |-> "Begin", ok |-> TRUE]>>, failAt)
           log1 == Append(r.log, [op |-> "End", ok |-> ~endFails, endFrame |-> endFrame])
       IN IF r.err # NoErr
          THEN [log |-> r.log, err |-> r.err, panic |-> r.panic, noop |-> FALSE, reset |-> FALSE]
          ELSE [log |-> log1,
                err |-> IF endFails THEN [call |-> "End", at |-> Len(log1)] ELSE r.err,
                panic |-> r.panic, noop |-> FALSE, reset |-> TRUE]

\* flush whose deferred function resets the queue only when no error occurred.
flush_ResetOnSuccessOnly(endFrame, failAt, endFails) ==
  IF Len(commands) = 0 /\ ~endFrame
  THEN [log |-> <<>>, err |-> NoErr, panic |-> FALSE, noop |-> TRUE, reset |-> FALSE]
  ELSE IF failAt = 1
  THEN [log |-> <<[op |-> "Begin", ok |-> FALSE]>>, err |-> [call |-> "Begin", at |-> 1],
        panic |-> FALSE, noop |-> FALSE, reset |-> FALSE]
  ELSE LET r == FlushChunks(commands, vertices, indices, 0, <<[op |-> "Begin", ok |-> TRUE]>>, failAt)
           log1 == Append(r.log, [op |-> "End", ok |-> ~endFails, endFrame |-> endFrame])
       IN [log |-> log1,
           err |-> IF endFails /\ r.err = NoErr
                   THEN [call |-> "End", at |-> Len(log1)] ELSE r.err,
           panic |-> r.panic, noop |-> FALSE, reset |-> r.err = NoErr /\ ~endFails]

\* flush whose deferred function lets the error of End replace an earlier error.
flush_EndErrorWins(endFrame, failAt, endFails) ==
  IF Len(commands) = 0 /\ ~endFrame
  THEN [log |-> <<>>, err |-> NoErr, panic |-> FALSE, noop |-> TRUE, reset |-> FALSE]
  ELSE IF failAt = 1
  THEN [log |-> <<[op |-> "Begin", ok |-> FALSE]>>, err |-> [call |-> "Begin", at |-> 1],
        panic |-> FALSE, noop |-> FALSE, reset |-> FALSE]
  ELSE LET r == FlushChunks(commands, vertices, indices, 0, <<[op |-> "Begin", ok |-> TRUE]>>, failAt)
           log1 == Append(r.log, [op |-> "End", ok |-> ~endFails, endFrame |-> endFrame])
       IN [log |-> log1,
           err |-> IF endFails THEN [call |-> "End", at |-> Len(log1)] ELSE r.err,
           panic |-> r.panic, noop |-> FALSE, reset |-> TRUE]

\* flush without the early return for an empty queue.
flush_NoEarlyReturn(endFrame, failAt, endFails) ==
  IF failAt = 1
  THEN [log |-> <<[op |-> "Begin", ok |-> FALSE]>>, err |-> [call |-> "Begin", at |-> 1],
        panic |-> FALSE, noop |-> FALSE, reset |-> FALSE]
  ELSE LET r == FlushChunks(commands, vertices, indices, 0, <<[op |-> "Begin", ok |-> TRUE]>>, failAt)
           log1 == Append(r.log, [op |-> "End", ok |-> ~endFails, endFrame |-> endFrame])
       IN [log |-> log1,
           err |-> IF endFails /\ r.err = NoErr
                   THEN [call |-> "End", at |-> Len(log1)] ELSE r.err,
           panic |-> r.panic, noop |-> FALSE, reset |-> TRUE]

\* q.flush: the driver calls, the returned error, and the queue afterwards.
flush(endFrame, failAt, endFails) ==
  IF Len(commands) = 0 /\ ~endFrame
  THEN [log |-> <<>>, err |-> NoErr, panic |-> FALSE, noop |-> TRUE, reset |-> FALSE]
  ELSE IF failAt = 1
  THEN [log |-> <<[op |-> "Begin", ok |-> FALSE]>>, err |-> [call |-> "Begin", at |-> 1],
        panic |-> FALSE, noop |-> FALSE, reset |-> FALSE]
  ELSE LET r == FlushChunks(commands, vertices, indices, 0, <<[op |-> "Begin", ok |-> TRUE]>>, failAt)
           log1 == Append(r.log, [op |-> "End", ok |-> ~endFails, endFrame |-> endFrame])
       IN [log |-> log1,
           err |-> IF endFails /\ r.err = NoErr
                   THEN [call |-> "End", at |-> Len(log1)] ELSE r.err,
           panic |-> r.panic, noop |-> FALSE, reset |-> TRUE]

\* Flush: flush on the rendering thread, then the reset of the float arena.
Flush(endFrame, failAt, endFails) ==
  /\ UNCHANGED <<bvars, avars, fvars>>
  /\ ~crashed
  /\ nops < MaxOps
  /\ nops' = nops + 1
  /\ \E r \in {flush(endFrame, failAt, endFails)} :
     /\ calls' = r.log
     /\ IF r.reset
        THEN /\ commands' = <<>>
             /\ vertices' = <<>>
             /\ indices' = <<>>
             /\ tmpNumVertexFloats' = 0
             /\ tmpNumIndices' = 0
             /\ pool' = PutAll(commands, 1, pool)
             /\ submitted' = <<>>
        ELSE UNCHANGED <<queue, pool, submitted>>
     /\ crashed' = r.panic
     /\ float32sBuffer' = IF endFrame /\ ~r.panic
                          THEN [float32sBuffer EXCEPT !.len = 0]
                          ELSE float32sBuffer
     /\ ret' = [op |-> "Flush", endFrame |-> endFrame, err |-> r.err, noop |-> r.noop,
                panic |-> r.panic,
                pre |-> [commands |-> commands, vertices |-> vertices,
                         indices |-> indices, submitted |-> submitted,
                         tmpNumVertexFloats |-> tmpNumVertexFloats,
                         tmpNumIndices |-> tmpNumIndices, pool |-> pool,
                         float32sBuffer |-> float32sBuffer]]

(***************************************************************************)
(* The inputs.                                                             *)
(***************************************************************************)
ImgDst == Image(1, 2, 2)
ImgDst2 == Image(2, 2, 2)
ImgSrc == Image(3, 2, 2)
ImgSrc2 == Image(4, 2, 2)

AllUniforms == 1..(PreservedUniformVariablesCount + 2)

\* A shader whose program uses every uniform variable.
ShaderA == Shader(1, AllUniforms)
\* A shader whose program uses none of the preserved uniform variables.
ShaderB == Shader(2, AllUniforms \ (1..PreservedUniformVariablesCount))

\* One vertex: position (x, y), the other six floats carry the tag t.
Vtx(x, y, t) == <<x, y, t, 0, 0, 0, 0, 0>>

\* n vertices on a diagonal that starts at (x, x).
RECURSIVE Verts(_, _, _)
Verts(n, x, t) == IF n = 0 THEN <<>> ELSE Verts(n - 1, x, t) \o Vtx(x + n - 1, x + n - 1, t)

\* n indices 0, 1, 2, 0, 1, 2, ...
Cycle(n) == [i \in 1..n |-> (i - 1) % 3]

BaseDraw ==
  [dst |-> ImgDst,
   srcs |-> <<ImgSrc, NilImage, NilImage, NilImage>>,
   offsets |-> <<<<F(0), F(0)>>, <<F(0), F(0)>>, <<F(0), F(0)>>>>,
   vertices |-> Verts(3, 0, 1),
   indices |-> <<0, 1, 2>>,
   blend |-> 1,
   dstRegion |-> Region(0, 0, 2, 2),
   srcRegion |-> [X |-> F(0), Y |-> F(0), Width |-> F(2), Height |-> F(2)],
   shader |-> ShaderA,
   uniforms |-> <<<<F(1)>>>>,
   evenOdd |-> FALSE]

\* The draws of the queue specification: a triangle; a triangle elsewhere whose
\* first index is the largest index value; a draw
\* that fills the vertex capacity and has no index; one that fills the index
\* capacity; one with one index too many; one with one vertex more than the
\* vertex capacity.
DrawInputs ==
  { BaseDraw,
    [BaseDraw EXCEPT !.vertices = Verts(3, 10, 2), !.indices = <<IndexMod - 1, 1, 2>>],
    [BaseDraw EXCEPT !.vertices = Verts(IndicesCount, 20, 3), !.indices = <<>>],
    [BaseDraw EXCEPT !.vertices = Verts(3, 30, 4), !.indices = Cycle(IndicesCount)],
    [BaseDraw EXCEPT !.indices = Cycle(IndicesCount + 1)],
    [BaseDraw EXCEPT !.vertices = Verts(IndicesCount + 1, 40, 5)] }

\* Commands other than draw-triangles commands: one whose Exec can report an
\* error (newImageCommand), one whose Exec cannot (disposeImageCommand).
OtherCommands ==
  { [kind |-> "newImage", fallible |-> TRUE],
    [kind |-> "disposeImage", fallible |-> FALSE] }

\* The calls of a flush the driver may fail: none, Begin, or one of the three
\* calls after Begin.
FailAts == 0..4

\* A triangle with its right angle at (x, y) and legs of length 2.
TriAt(x, y, t) == Vtx(x, y, t) \o Vtx(x + 2, y, t) \o Vtx(x, y + 2, t)

PlainB == [BaseDraw EXCEPT !.shader = ShaderB, !.vertices = TriAt(0, 0, 1)]

EvenOddB == [PlainB EXCEPT !.evenOdd = TRUE]

\* The draws of the merge specification: draws that differ from PlainB in one
\* argument, and even-odd draws at several places.
MergeInputs ==
  { PlainB,
    BaseDraw,
    [BaseDraw EXCEPT !.srcRegion = [X |-> F(0), Y |-> F(0), Width |-> F(1), Height |-> F(2)]],
    [BaseDraw EXCEPT !.offsets = <<<<F(1), F(0)>>, <<F(0), F(0)>>, <<F(0), F(0)>>>>],
    [PlainB EXCEPT !.uniforms = <<<<F(2)>>>>],
    [PlainB EXCEPT !.uniforms = <<<<F(1), F(1)>>>>],
    [PlainB EXCEPT !.uniforms = <<<<F(1)>>, <<F(2)>>>>],
    [PlainB EXCEPT !.dst = ImgDst2],
    [PlainB EXCEPT !.srcs = <<ImgSrc2, NilImage, NilImage, NilImage>>],
    [PlainB EXCEPT !.srcs = <<NilImage, ImgSrc, NilImage, NilImage>>],
    [PlainB EXCEPT !.blend = 2],
    [PlainB EXCEPT !.dstRegion = Region(0, 0, 1, 1)],
    EvenOddB,
    [EvenOddB EXCEPT !.vertices = TriAt(2, 2, 2)],
    [EvenOddB EXCEPT !.vertices = TriAt(3, 0, 3)],
    [EvenOddB EXCEPT !.vertices = TriAt(0, 3, 4)],
    [EvenOddB EXCEPT !.vertices = TriAt(2, 0, 5)],
    [EvenOddB EXCEPT !.vertices = <<>>, !.indices = <<>>],
    [EvenOddB EXCEPT !.vertices = TriAt(3, 0, 3), !.blend = 2] }

Next ==
  \/ \E d \in DrawInputs : EnqueueDrawTrianglesCommand(d)
  \/ \E c \in OtherCommands : Enqueue(c)
  \/ \E endFrame \in BOOLEAN, failAt \in FailAts, endFails \in BOOLEAN :
       Flush(endFrame, failAt, endFails)

Spec == Init /\ [][Next]_vars

\* The merge specification: MergeOps draws on the empty queue.
NextMerge ==
  \E d \in MergeInputs : Len(submitted) < MergeOps /\ EnqueueDrawTrianglesCommand(d)

SpecMerge == Init /\ [][NextMerge]_vars

(***************************************************************************)
(* The vertices backend.                                                   *)
(*                                                                         *)
(* The backing array is modelled by its length: the floats are written by  *)
(* the callers.  slice holds the mutex from its first to its last          *)
(* statement and is one step; lockAndReset holds it while f runs, which is *)
(* the time between its two steps.                                         *)
(***************************************************************************)
\* The numbers of vertices requested: none, one, half of the smallest backing
\* array, all of it, one more.
SliceSizes == {0, 1, MinBackendVertices \div 2, MinBackendVertices, MinBackendVertices + 1}

RECURSIVE verticesBackendFloat32SizeFrom(_, _)
verticesBackendFloat32SizeFrom(l, size) ==
  IF l < size THEN verticesBackendFloat32SizeFrom(l * 2, size) ELSE l

verticesBackendFloat32Size(size) ==
  verticesBackendFloat32SizeFrom(MinBackendVertices * VertexFloatCount, size)

\* The largest backing array of the model.
MaxBackend == MinBackendVertices * VertexFloatCount * (2 ^ MaxDoublings)

\* slice that returns the range at the cursor and leaves the cursor where it is.
slice_NoAdvance(b, p, n) ==
  LET need == n * VertexFloatCount
      grow == b < p + need
  IN [backend |-> IF grow THEN max(b * 2, verticesBackendFloat32Size(need)) ELSE b,
      pos |-> IF grow THEN 0 ELSE p,
      start |-> IF grow THEN 0 ELSE p,
      len |-> need,
      grew |-> grow]

\* slice that returns the storage the array has left when the request does not fit.
slice_NoGrowth(b, p, n) ==
  LET need == n * VertexFloatCount
      have == IF b < p + need THEN b - p ELSE need
  IN [backend |-> b, pos |-> p + have, start |-> p, len |-> have, grew |-> FALSE]

\* v.slice(n) with len(v.backend) = b and v.pos = p: the length of the backing
\* array and the cursor afterwards, the range returned, and whether a new backing
\* array was made.
slice(b, p, n) ==
  LET need == n * VertexFloatCount
      grow == b < p + need
      b1 == IF grow THEN max(b * 2, verticesBackendFloat32Size(need)) ELSE b
      p1 == IF grow THEN 0 ELSE p
  IN [backend |-> b1, pos |-> p1 + need, start |-> p1, len |-> need, grew |-> grow]

\* Vertices(n) / v.slice(n) on thread t.
Slice(t, n) ==
  /\ UNCHANGED <<qvars, avars, fvars>>
  /\ mutex = 0
  /\ \E r \in {slice(backend, pos, n)} :
       /\ r.backend <= MaxBackend
       /\ Len(IF r.grew THEN <<>> ELSE epochSlices) < MaxSlices
       /\ backend' = r.backend
       /\ pos' = r.pos
       /\ epochSlices' = Append(IF r.grew THEN <<>> ELSE epochSlices,
                                [start |-> r.start, len |-> r.len])
       /\ bret' = [op |-> "slice", n |-> n, start |-> r.start,
                   len |-> r.len, grew |-> r.grew,
                   prev |-> IF bret.op = "slice"
                            THEN <<[n |-> bret.n, start |-> bret.start, len |-> bret.len]>>
                            ELSE <<>>]
  /\ UNCHANGED <<notFullyUsedTime, mutex, streak, pc>>

\* lockAndReset up to the call of f: thread t takes the mutex.
LockAndResetBegin(t) ==
  /\ UNCHANGED <<qvars, avars, fvars>>
  /\ mutex = 0
  /\ mutex' = t
  /\ bret' = [op |-> "lock", thread |-> t]
  /\ UNCHANGED <<backend, pos, notFullyUsedTime, epochSlices, streak, pc>>

\* lockAndReset that resets the cursor before it looks at the outcome of f.
lockAndReset_ResetFirst(b, p, c, ferr) ==
  IF ferr
  THEN [backend |-> b, pos |-> 0, notFullyUsedTime |-> c, released |-> FALSE]
  ELSE LET c1 == IF verticesBackendFloat32Size(p) < b
                 THEN (IF c < maxNotFullyUsedTime THEN c + 1 ELSE c)
                 ELSE 0
           released == c1 = maxNotFullyUsedTime /\ b > 0
       IN [backend |-> IF released THEN 0 ELSE b,
           pos |-> 0,
           notFullyUsedTime |-> IF released THEN 0 ELSE c1,
           released |-> released]

\* lockAndReset that counts a window as under-used when the cursor is below half
\* of the backing array.
lockAndReset_HalfOfArray(b, p, c, ferr) ==
  IF ferr
  THEN [backend |-> b, pos |-> p, notFullyUsedTime |-> c, released |-> FALSE]
  ELSE LET c1 == IF 2 * p < b
                 THEN (IF c < maxNotFullyUsedTime THEN c + 1 ELSE c)
                 ELSE 0
           released == c1 = maxNotFullyUsedTime /\ b > 0
       IN [backend |-> IF released THEN 0 ELSE b,
           pos |-> 0,
           notFullyUsedTime |-> IF released THEN 0 ELSE c1,
           released |-> released]

\* lockAndReset from the return of f, with len(v.backend) = b, v.pos = p and
\* v.notFullyUsedTime = c; ferr tells whether f returned an error.
lockAndReset(b, p, c, ferr) ==
  IF ferr
  THEN [backend |-> b, pos |-> p, notFullyUsedTime |-> c, released |-> FALSE]
  ELSE LET c1 == IF verticesBackendFloat32Size(p) < b
                 THEN (IF c < maxNotFullyUsedTime THEN c + 1 ELSE c)
                 ELSE 0
           released == c1 = maxNotFullyUsedTime /\ b > 0
       IN [backend |-> IF released THEN 0 ELSE b,
           pos |-> 0,
           notFullyUsedTime |-> IF released THEN 0 ELSE c1,
           released |-> released]

\* lockAndReset from the return of f to its own return, on thread t.
LockAndResetEnd(t, ferr) ==
  /\ UNCHANGED <<qvars, avars, fvars>>
  /\ mutex = t
  /\ mutex' = 0
  /\ UNCHANGED pc
  /\ \E r \in {lockAndReset(backend, pos, notFullyUsedTime, ferr)} :
       /\ backend' = r.backend
       /\ pos' = r.pos
       /\ notFullyUsedTime' = r.notFullyUsedTime
       /\ epochSlices' = IF ferr THEN epochSlices ELSE <<>>
       /\ streak' = IF ferr THEN streak
                    ELSE IF verticesBackendFloat32Size(pos) < backend /\ ~r.released
                    THEN streak + 1
                    ELSE 0
       /\ bret' = [op |-> "lockAndReset", thread |-> t, ferr |-> ferr,
                   released |-> r.released,
                   pre |-> [backend |-> backend, pos |-> pos,
                            notFullyUsedTime |-> notFullyUsedTime, streak |-> streak]]

NextBackend ==
  \/ \E t \in Threads, n \in SliceSizes : Slice(t, n)
  \/ \E t \in Threads : LockAndResetBegin(t)
  \/ \E t \in Threads, ferr \in BOOLEAN : LockAndResetEnd(t, ferr)

SpecBackend == Init /\ [][NextBackend]_vars

(***************************************************************************)
(* The vertices backend with the calls of its threads interleaved: a call  *)
(* is made, waits for the mutex, and runs to its return holding it.        *)
(***************************************************************************)
\* Number of under-used windows after which the threads of the interleaved
\* specification start no further window.
MaxWindows == 1

Idle == [at |-> "idle"]

\* v.m.Lock() with the mutex never held.
Unlocked_Always(mu) == TRUE

\* v.m.Lock() returns only when no thread holds the mutex.
Unlocked(mu) == mu = 0

\* Thread t calls slice(n) and arrives at v.m.Lock().
CallSlice(t, n) ==
  /\ UNCHANGED <<qvars, avars, fvars>>
  /\ pc[t] = Idle
  /\ pc' = [pc EXCEPT ![t] = [at |-> "Lock", op |-> "slice", n |-> n]]
  /\ UNCHANGED <<backend, pos, notFullyUsedTime, mutex, epochSlices, streak, bret>>

\* Thread t calls lockAndReset and arrives at v.m.Lock().
CallLockAndReset(t) ==
  /\ UNCHANGED <<qvars, avars, fvars>>
  /\ pc[t] = Idle
  /\ notFullyUsedTime < MaxWindows
  /\ pc' = [pc EXCEPT ![t] = [at |-> "Lock", op |-> "lockAndReset", n |-> 0]]
  /\ UNCHANGED <<backend, pos, notFullyUsedTime, mutex, epochSlices, streak, bret>>

\* v.m.Lock() of thread t returns; in lockAndReset, f starts.
Lock(t) ==
  /\ UNCHANGED <<qvars, avars, fvars>>
  /\ pc[t].at = "Lock"
  /\ Unlocked(mutex)
  /\ mutex' = t
  /\ pc' = [pc EXCEPT ![t].at = "locked"]
  /\ bret' = [op |-> "lock"]
  /\ UNCHANGED <<backend, pos, notFullyUsedTime, epochSlices, streak>>

\* The body of slice on thread t and the deferred v.m.Unlock().
SliceReturn(t) ==
  /\ UNCHANGED <<qvars, avars, fvars>>
  /\ pc[t].at = "locked"
  /\ pc[t].op = "slice"
  /\ \E r \in {slice(backend, pos, pc[t].n)} :
       /\ r.backend <= MaxBackend
       /\ Len(IF r.grew THEN <<>> ELSE epochSlices) < MaxSlices
       /\ backend' = r.backend
       /\ pos' = r.pos
       /\ epochSlices' = Append(IF r.grew THEN <<>> ELSE epochSlices,
                                [start |-> r.start, len |-> r.len])
       /\ bret' = [op |-> "slice"]
  /\ mutex' = 0
  /\ pc' = [pc EXCEPT ![t] = Idle]
  /\ UNCHANGED <<notFullyUsedTime, streak>>

\* f returns on thread t; the rest of lockAndReset and the deferred
\* v.m.Unlock().
LockAndResetReturn(t, ferr) ==
  /\ UNCHANGED <<qvars, avars, fvars>>
  /\ pc[t].at = "locked"
  /\ pc[t].op = "lockAndReset"
  /\ \E r \in {lockAndReset(backend, pos, notFullyUsedTime, ferr)} :
       /\ backend' = r.backend
       /\ pos' = r.pos
       /\ notFullyUsedTime' = r.notFullyUsedTime
       /\ epochSlices' = IF ferr THEN epochSlices ELSE <<>>
       /\ bret' = [op |-> "lockAndReset"]
  /\ mutex' = 0
  /\ pc' = [pc EXCEPT ![t] = Idle]
  /\ UNCHANGED streak

NextThreads ==
  \/ \E t \in Threads, n \in SliceSizes : CallSlice(t, n)
  \/ \E t \in Threads : CallLockAndReset(t)
  \/ \E t \in Threads : Lock(t)
  \/ \E t \in Threads : SliceReturn(t)
  \/ \E t \in Threads, ferr \in BOOLEAN : LockAndResetReturn(t, ferr)

SpecThreads == Init /\ [][NextThreads]_vars

(***************************************************************************)
(* Flush, one iteration of the loop over the chunks at a time.  The flush  *)
(* runs on the rendering thread while its caller waits: no other operation *)
(* of the queue takes place before it returns.                             *)
(***************************************************************************)
\* The deferred function of flush, End excepted: the commands go back to the
\* pool and the queue is emptied.
FlushDeferred ==
  /\ commands' = <<>>
  /\ vertices' = <<>>
  /\ indices' = <<>>
  /\ tmpNumVertexFloats' = 0
  /\ tmpNumIndices' = 0
  /\ pool' = PutAll(commands, 1, pool)
  /\ submitted' = <<>>

\* flush has returned to Flush, which truncates the arena at the end of a frame.
FlushReturned(endFrame, err, panic) ==
  /\ flushLoop' = NotFlushing
  /\ crashed' = panic
  /\ float32sBuffer' = IF endFrame /\ ~panic
                       THEN [float32sBuffer EXCEPT !.len = 0]
                       ELSE float32sBuffer
  /\ ret' = [op |-> "flush", at |-> "returned", err |-> err, panic |-> panic]

\* Flush up to the registration of the deferred function: the no-op test and
\* Begin.
FlushBegin(endFrame, beginFails) ==
  /\ UNCHANGED <<bvars, avars>>
  /\ ~crashed
  /\ flushLoop.at = "idle"
  /\ nops < MaxOps
  /\ nops' = nops + 1
  /\ calls' = <<>>
  /\ UNCHANGED <<queue, pool, submitted>>
  /\ IF Len(commands) = 0 /\ ~endFrame
     THEN FlushReturned(endFrame, NoErr, FALSE)
     ELSE IF beginFails
     THEN FlushReturned(endFrame, [call |-> "Begin", at |-> 1], FALSE)
     ELSE /\ flushLoop' = [at |-> "begun", cs |-> commands, vs |-> vertices,
                           es |-> indices, nc |-> 0, endFrame |-> endFrame]
          /\ ret' = [op |-> "flush", at |-> "begun"]
          /\ UNCHANGED <<crashed, float32sBuffer>>

\* One iteration of `for len(cs) > 0`: the chunk is formed, uploaded and
\* executed; fails tells whether one of its driver calls returns an error.
FlushChunk(fails) ==
  /\ UNCHANGED <<bvars, avars>>
  /\ flushLoop.at # "idle"
  /\ Len(flushLoop.cs) > 0
  /\ UNCHANGED <<nops, calls>>
  /\ \E ch \in {ChunkOf(flushLoop.cs, 1, 0, 0, 0)} :
       IF ch.panic \/ fails
       THEN /\ FlushDeferred
            /\ FlushReturned(flushLoop.endFrame,
                             IF ch.panic THEN NoErr ELSE [call |-> "chunk", at |-> 0],
                             ch.panic)
       ELSE /\ flushLoop' =
                 [flushLoop EXCEPT
                    !.at = "chunk",
                    !.nc = ch.nc,
                    !.cs = SubSeq(@, ch.nc + 1, Len(@)),
                    !.vs = IF 0 < ch.ne THEN SubSeq(@, ch.nv + 1, Len(@)) ELSE @,
                    !.es = IF 0 < ch.ne THEN SubSeq(@, ch.ne + 1, Len(@)) ELSE @]
            /\ ret' = [op |-> "flush", at |-> "chunk"]
            /\ UNCHANGED <<queue, pool, submitted, crashed, float32sBuffer>>

\* The loop has ended: flush returns nil through its deferred function.
FlushReturn(endFails) ==
  /\ UNCHANGED <<bvars, avars>>
  /\ flushLoop.at # "idle"
  /\ Len(flushLoop.cs) = 0
  /\ UNCHANGED <<nops, calls>>
  /\ FlushDeferred
  /\ FlushReturned(flushLoop.endFrame,
                   IF endFails THEN [call |-> "End", at |-> 0] ELSE NoErr, FALSE)

NextFlushLoop ==
  \/ \E d \in DrawInputs : flushLoop.at = "idle" /\ EnqueueDrawTrianglesCommand(d)
  \/ \E c \in OtherCommands : flushLoop.at = "idle" /\ Enqueue(c)
  \/ \E endFrame \in BOOLEAN, beginFails \in BOOLEAN : FlushBegin(endFrame, beginFails)
  \/ \E fails \in BOOLEAN : FlushChunk(fails)
  \/ \E endFails \in BOOLEAN : FlushReturn(endFails)

\* The rendering thread keeps running a flush it has begun, every driver call
\* returning.
SpecFlushLoop ==
  /\ Init
  /\ [][NextFlushLoop]_vars
  /\ WF_vars(\E fails \in BOOLEAN : FlushChunk(fails))
  /\ WF_vars(\E endFails \in BOOLEAN : FlushReturn(endFails))

(***************************************************************************)
(* adjustDestinationPixel (internal/graphics/vertex.go).  A float32 is the *)
(* integer x standing for x / PixelUnit; every arithmetic result is        *)
(* rounded to the nearest float32, ties to even.                           *)
(***************************************************************************)
\* The integer that stands for 1.0.
PixelUnit == 2 ^ FracBits

\* The spacing of the float32 values around the magnitude a: the smallest power
\* of two q with a / q below 2^Float32Precision.
RECURSIVE UlpFrom(_, _)
UlpFrom(q, a) ==
  IF a \div q < 2 ^ Float32Precision THEN q ELSE UlpFrom(2 * q, a)

\* The float32 nearest to x, ties to the even significand.
Round32(x) ==
  LET a == Abs(x)
      q == UlpFrom(1, a)
      lo == (a \div q) * q
      rem == a - lo
      up == \/ 2 * rem > q
            \/ 2 * rem = q /\ (a \div q) % 2 = 1
      r == IF up THEN lo + q ELSE lo
  IN IF x < 0 THEN -r ELSE r

\* float32(int(x)): the conversion to int truncates toward zero.
TruncToInt(x) ==
  LET a == (Abs(x) \div PixelUnit) * PixelUnit
  IN Round32(IF x < 0 THEN -a ELSE a)

\* adjustDestinationPixel without the correction of negative arguments.
adjustDestinationPixel_Truncating(x) ==
  LET ix == TruncToInt(x)
      frac == Round32(x - ix)
  IN CASE frac * 16 < 3 * PixelUnit -> ix
       [] frac * 16 < 8 * PixelUnit -> Round32(ix + (5 * PixelUnit) \div 16)
       [] frac * 16 < 13 * PixelUnit -> Round32(ix + (11 * PixelUnit) \div 16)
       [] OTHER -> Round32(ix + PixelUnit)

adjustDestinationPixel(x) ==
  LET ix0 == TruncToInt(x)
      ix == IF x < 0 /\ x # ix0 THEN Round32(ix0 - PixelUnit) ELSE ix0
      frac == Round32(x - ix)
  IN CASE frac * 16 < 3 * PixelUnit -> ix
       [] frac * 16 < 8 * PixelUnit -> Round32(ix + (5 * PixelUnit) \div 16)
       [] frac * 16 < 13 * PixelUnit -> Round32(ix + (11 * PixelUnit) \div 16)
       [] OTHER -> Round32(ix + PixelUnit)

\* Integer parts of the coordinates: small ones, and the powers of two around
\* which the spacing of the float32 values passes 1/16.
PixelWholes ==
  LET ws == {0, 1, 7} \cup {2 ^ k : k \in (Float32Precision - 6)..(Float32Precision - 1)}
  IN ws \cup {-w : w \in ws} \cup {-w - 1 : w \in ws}

\* The float32 values with these integer parts.
PixelInputs ==
  {x \in {w * PixelUnit + f : w \in PixelWholes, f \in 0..(PixelUnit - 1)} :
     Round32(x) = x}

InitAdjust ==
  /\ InitQueueAndBackend
  /\ pixel \in PixelInputs
  /\ adjusted = <<>>

\* One more application: to the argument first, then to the value returned.
AdjustDestinationPixel ==
  /\ Len(adjusted) < MaxApplications
  /\ adjusted' = Append(adjusted,
                    adjustDestinationPixel(IF adjusted = <<>> THEN pixel
                                           ELSE adjusted[Len(adjusted)]))
  /\ UNCHANGED <<pixel, qvars, bvars, fvars>>

NextAdjust == AdjustDestinationPixel

SpecAdjust == InitAdjust /\ [][NextAdjust]_vars

(***************************************************************************)
(* Properties.                                                             *)
(***************************************************************************)
\* The last operation was a Flush that was not a no-op.
Flushed == ret.op = "Flush" /\ ~ret.noop

\* The last operation was a Flush whose Begin succeeded.
FlushedBegun == Flushed /\ ret.err.call # "Begin"

QueueEmpty ==
  /\ Len(commands) = 0
  /\ Len(vertices) = 0
  /\ Len(indices) = 0
  /\ tmpNumVertexFloats = 0
  /\ tmpNumIndices = 0

\* The positions of the calls with operation op among the calls of the last flush.
CallsOf(op) == {i \in 1..Len(calls) : calls[i].op = op}

\* C1 as claimed: after any Flush that is not a no-op, whichever driver call failed
\* (Begin included), the command list, the vertex array and the index array are
\* empty and the chunk counters are zero.
C1_Original == Flushed => QueueEmpty

\* C1, what the code does: after a Flush that is not a no-op and whose Begin
\* succeeded, whether it then succeeds or SetVertices, a command's Exec or End
\* fails, the command list, the vertex array and the index array are empty and the
\* chunk counters are zero; a Flush whose Begin fails leaves all five as they were.
C1_Theorem ==
  /\ FlushedBegun => QueueEmpty
  /\ (Flushed /\ ret.err.call = "Begin") =>
       /\ commands = ret.pre.commands
       /\ vertices = ret.pre.vertices
       /\ indices = ret.pre.indices
       /\ tmpNumVertexFloats = ret.pre.tmpNumVertexFloats
       /\ tmpNumIndices = ret.pre.tmpNumIndices

\* C1 witness: a Flush of a queue with commands, vertices and indices in which a
\* command's Exec failed has left the queue empty.
C1_Witness ==
  /\ Flushed
  /\ ret.err.call = "Exec"
  /\ Len(ret.pre.commands) > 1
  /\ Len(ret.pre.indices) > 0
  /\ QueueEmpty

FailedCalls == {i \in 1..Len(calls) : calls[i].op # "End" /\ ~calls[i].ok}

Minimum(S) == CHOOSE x \in S : \A y \in S : x <= y

\* C3: Flush returns the error of the first driver call (Begin, SetVertices, a
\* command's Exec) that failed, and makes no SetVertices or Exec call after it; it
\* returns the error of End only if no earlier call failed; it returns no error
\* if no call failed.
C3_Theorem ==
  Flushed =>
    IF FailedCalls # {}
    THEN LET first == Minimum(FailedCalls) IN
         /\ ret.err = [call |-> calls[first].op, at |-> first]
         /\ \A j \in (first + 1)..Len(calls) : calls[j].op = "End"
    ELSE IF \E i \in CallsOf("End") : ~calls[i].ok
    THEN ret.err.call = "End"
    ELSE ret.err = NoErr

\* C3 witness: a Flush in which a command's Exec failed with commands left to
\* execute, and End failed too, returned the error of Exec.
C3_Witness ==
  /\ Flushed
  /\ ret.err.call = "Exec"
  /\ Cardinality(CallsOf("Exec")) < Len(ret.pre.commands)
  /\ ~calls[Len(calls)].ok

ChunkCapacity == IndicesCount * VertexFloatCount

\* C4 as claimed: every SetVertices of a Flush carries at most
\* IndicesCount*VertexFloatCount vertex floats and at most IndicesCount indices,
\* and a Flush in which no SetVertices or Exec fails, of a queue whose vertex floats
\* or indices exceed that capacity, calls SetVertices at least twice.
C4_Claim ==
  Flushed =>
    /\ \A i \in CallsOf("SetVertices") :
         /\ Len(calls[i].vertices) <= ChunkCapacity
         /\ Len(calls[i].indices) <= IndicesCount
    /\ ( /\ FailedCalls = {}
         /\ \A k \in 1..Len(ret.pre.commands) : ret.pre.commands[k].kind = "draw"
         /\ \/ Len(ret.pre.vertices) > ChunkCapacity
            \/ Len(ret.pre.indices) > IndicesCount )
       => Cardinality(CallsOf("SetVertices")) >= 2

\* The index buffers of the SetVertices calls log[k..], concatenated.
RECURSIVE UploadedIndices(_, _)
UploadedIndices(log, k) ==
  IF k > Len(log) THEN <<>>
  ELSE (IF log[k].op = "SetVertices" THEN log[k].indices ELSE <<>>)
       \o UploadedIndices(log, k + 1)

\* The index sequences of the submitted draws sub[k..], concatenated.
RECURSIVE SubmittedIndices(_, _)
SubmittedIndices(sub, k) ==
  IF k > Len(sub) THEN <<>> ELSE sub[k].d.indices \o SubmittedIndices(sub, k + 1)

\* The vertex floats accumulated in the chunk of draw k when it was enqueued: those
\* of the draws before it, back to the last draw that started a chunk.
RECURSIVE ChunkFloatsBefore(_, _)
ChunkFloatsBefore(sub, k) ==
  IF k = 1 \/ sub[k].split THEN 0
  ELSE ChunkFloatsBefore(sub, k - 1) + Len(sub[k - 1].d.vertices)

\* For every index of the submitted draws sub[k..], the rebasing offset of its draw.
RECURSIVE RebasingOffsets(_, _)
RebasingOffsets(sub, k) ==
  IF k > Len(sub) THEN <<>>
  ELSE [j \in 1..Len(sub[k].d.indices) |->
         (ChunkFloatsBefore(sub, k) \div VertexFloatCount) % IndexMod]
       \o RebasingOffsets(sub, k + 1)

\* C5: after a Flush in which no driver call failed, the index buffers passed to
\* SetVertices, concatenated in call order, with the rebasing offset of its draw
\* subtracted from each index modulo 2^IndexBits, are the index sequences submitted
\* to EnqueueDrawTrianglesCommand, concatenated in enqueue order.
C5_Theorem ==
  (Flushed /\ ret.err = NoErr) =>
    LET up == UploadedIndices(calls, 1)
        orig == SubmittedIndices(ret.pre.submitted, 1)
        offs == RebasingOffsets(ret.pre.submitted, 1)
    IN /\ Len(up) = Len(orig)
       /\ \A k \in 1..Len(up) : (up[k] - offs[k]) % IndexMod = orig[k]

\* C5 witness: a Flush without error that uploaded two index buffers, one of them
\* with an index that the rebasing wrapped around.
C5_Witness ==
  /\ Flushed
  /\ ret.err = NoErr
  /\ Cardinality(CallsOf("SetVertices")) >= 2
  /\ \E k \in 1..Len(ret.pre.submitted) :
       LET sb == ret.pre.submitted[k] IN
       /\ sb.offset > 0
       /\ \E j \in 1..Len(sb.d.indices) : sb.d.indices[j] + sb.offset >= IndexMod

\* The last operation was an EnqueueDrawTrianglesCommand that did not panic.
Enqueued == ret.op = "EnqueueDrawTrianglesCommand" /\ ~ret.panic

\* The x (k = 1) or y (k = 2) coordinates of the vertices vs.
Coords(vs, k) == {vs[VertexFloatCount * i + k] : i \in 0..((Len(vs) \div VertexFloatCount) - 1)}

Maximum(S) == CHOOSE x \in S : \A y \in S : y <= x

\* The bounding boxes of the vertices v1 and v2 overlap within margin m.
BoxesOverlap(v1, v2, m) ==
  /\ Coords(v1, 1) # {}
  /\ Coords(v2, 1) # {}
  /\ Minimum(Coords(v1, 1)) < Maximum(Coords(v2, 1)) + m
  /\ Minimum(Coords(v2, 1)) < Maximum(Coords(v1, 1)) + m
  /\ Minimum(Coords(v1, 2)) < Maximum(Coords(v2, 2)) + m
  /\ Minimum(Coords(v2, 2)) < Maximum(Coords(v1, 2)) + m

RECURSIVE SumIndices(_, _)
SumIndices(sub, k) ==
  IF k > Len(sub) THEN 0 ELSE Len(sub[k].d.indices) + SumIndices(sub, k + 1)

RECURSIVE SumVertices(_, _)
SumVertices(sub, k) ==
  IF k > Len(sub) THEN 0 ELSE Len(sub[k].d.vertices) + SumVertices(sub, k + 1)

\* The draws a and b have the same arguments, the vertices, the indices and the
\* even-odd flag apart.
SameArguments(a, b) ==
  /\ a.shader = b.shader
  /\ a.uniforms = b.uniforms
  /\ a.dst = b.dst
  /\ a.srcs = b.srcs
  /\ a.blend = b.blend
  /\ a.dstRegion = b.dstRegion
  /\ a.srcRegion = b.srcRegion
  /\ a.offsets = b.offsets

\* C6 as claimed, for the sequences that fit in one chunk: after draws enqueued
\* one after the other on an empty queue that have the same shader, uniforms,
\* destination, sources, blend mode and destination region (and source region and
\* offsets), are not even-odd, have pairwise non-overlapping bounding boxes, and
\* whose vertex floats and indices together stay within the capacity of a chunk,
\* the queue holds one command, whose index count is the sum of the index counts.
C6_Claim ==
  ( /\ Enqueued
    /\ \A k \in 1..Len(commands) : commands[k].kind = "draw"
    /\ \A k \in 2..Len(submitted) : submitted[k].at = submitted[k - 1].at + 1
    /\ \A i, j \in 1..Len(submitted) :
         /\ SameArguments(submitted[i].d, submitted[j].d)
         /\ ~submitted[i].d.evenOdd
         /\ i # j => ~BoxesOverlap(submitted[i].d.vertices, submitted[j].d.vertices, mergin)
    /\ SumVertices(submitted, 1) <= ChunkCapacity
    /\ SumIndices(submitted, 1) <= IndicesCount )
  => /\ Len(commands) = 1
     /\ commands[1].nindices = SumIndices(submitted, 1)

\* The condition the claim gives for a merge of the incoming draw d, whose uniform
\* list is u, with the queued command c, whose vertices are cv and whose uniform
\* list is cu.
MergeCondition(c, cv, cu, d, u) ==
  /\ c.shader = d.shader
  /\ cu = u
  /\ c.dst = d.dst
  /\ \A i \in 1..ShaderImageCount : c.srcs[i] = d.srcs[i]
  /\ c.blend = d.blend
  /\ c.dstRegion = d.dstRegion
  /\ \/ ~c.evenOdd /\ ~d.evenOdd
     \/ c.evenOdd /\ d.evenOdd /\ ~BoxesOverlap(cv, d.vertices, 1)

\* C7: the incoming draw is merged with the queued draw-triangles command it is
\* compared with if and only if both have the same shader, equal uniform lists, the
\* same destination, the same four sources in the same order, the same blend and the
\* same destination region, and either neither is even-odd or both are and their
\* bounding boxes do not overlap within a margin of 1; two even-odd draws equal in
\* all of this whose bounding boxes overlap within the margin leave the queue with
\* 2 commands, and a pair with exactly one even-odd member is never merged.
C7_Theorem ==
  (Enqueued /\ ret.compared) =>
    /\ ret.merged <=>
         MergeCondition(ret.last.c, ret.last.vertices, ret.last.uniforms, ret.d, ret.uniforms)
    /\ ( /\ Len(submitted) = 2
         /\ ret.d.evenOdd /\ ret.last.c.evenOdd
         /\ BoxesOverlap(ret.last.vertices, ret.d.vertices, 1) )
       => Len(commands) = 2
    /\ (ret.d.evenOdd # ret.last.c.evenOdd) => ~ret.merged

\* C7 witness: two even-odd draws with equal arguments whose bounding boxes are
\* exactly one unit apart have been merged.
C7_Witness ==
  /\ Enqueued
  /\ ret.compared
  /\ ret.merged
  /\ ret.d.evenOdd
  /\ Len(ret.d.vertices) > 0
  /\ Len(ret.last.vertices) > 0
  /\ BoxesOverlap(ret.last.vertices, ret.d.vertices, 2)
  /\ Len(commands) = 1

\* C8: EnqueueDrawTrianglesCommand with more than IndicesCount indices panics and
\* leaves the commands, the vertex array, the index array and the chunk counters
\* unchanged; with IndicesCount indices or fewer it does not panic.
C8_Theorem ==
  [][ret'.op = "EnqueueDrawTrianglesCommand" =>
       IF Len(ret'.d.indices) > IndicesCount
       THEN /\ ret'.panic
            /\ crashed'
            /\ UNCHANGED queue
       ELSE ~ret'.panic /\ ~crashed']_vars

\* C8 witness: a draw with IndicesCount + 1 indices has panicked on a queue that
\* holds commands, and a draw with IndicesCount indices is queued.
C8_Witness ==
  /\ ret.op = "EnqueueDrawTrianglesCommand"
  /\ ret.panic
  /\ Len(ret.d.indices) = IndicesCount + 1
  /\ \E k \in 1..Len(submitted) : Len(submitted[k].d.indices) = IndicesCount

\* C9: every queued draw-triangles command has at most IndicesCount indices, and
\* the index-count check of Flush never panics.
C9_Theorem ==
  /\ \A k \in 1..Len(commands) :
       commands[k].kind = "draw" => commands[k].nindices <= IndicesCount
  /\ ret.op = "Flush" => ~ret.panic

\* C9 witness: a Flush has executed a command into which a draw was merged and
\* which had IndicesCount indices.
C9_Witness ==
  /\ Flushed
  /\ \E k \in 1..Len(ret.pre.commands) :
       /\ ret.pre.commands[k].kind = "draw"
       /\ ret.pre.commands[k].nindices = IndicesCount
       /\ ret.pre.commands[k].vertices.len > Len(BaseDraw.vertices)

\* The last operation was a Flush of a queue without commands.
FlushedEmpty == ret.op = "Flush" /\ Len(ret.pre.commands) = 0

QueueUntouched ==
  /\ commands = ret.pre.commands
  /\ vertices = ret.pre.vertices
  /\ indices = ret.pre.indices
  /\ tmpNumVertexFloats = ret.pre.tmpNumVertexFloats
  /\ tmpNumIndices = ret.pre.tmpNumIndices
  /\ pool = ret.pre.pool
  /\ float32sBuffer = ret.pre.float32sBuffer

\* The operations of the calls of the last flush.
CallOps == [i \in 1..Len(calls) |-> calls[i].op]

ExecCalls == SelectSeq(calls, LAMBDA e : e.op = "Exec")

\* C11: a Flush in which no driver call fails executes every queued command once,
\* in queue order, and the queue order is the enqueue order: Enqueue of a command
\* other than a draw appends it after the commands already queued, a draw is
\* appended as the last command or merged into the last command, and a draw that
\* follows a command other than a draw is not merged.
C11_Theorem ==
  /\ []((Flushed /\ ret.err = NoErr /\ ~ret.panic) =>
          /\ Len(ExecCalls) = Len(ret.pre.commands)
          /\ \A k \in 1..Len(ExecCalls) :
               /\ ExecCalls[k].pos = k
               /\ ExecCalls[k].kind = ret.pre.commands[k].kind
               /\ ExecCalls[k].nindices = numIndices(ret.pre.commands[k]))
  /\ [][/\ ret'.op = "Enqueue" =>
            /\ Len(commands') = Len(commands) + 1
            /\ commands'[Len(commands')].kind # "draw"
            /\ SubSeq(commands', 1, Len(commands)) = commands
        /\ (ret'.op = "EnqueueDrawTrianglesCommand" /\ ~ret'.panic) =>
            /\ Len(commands') = IF ret'.merged THEN Len(commands) ELSE Len(commands) + 1
            /\ commands'[Len(commands')].kind = "draw"
            /\ \A k \in 1..(Len(commands') - 1) :
                 /\ commands'[k].kind = commands[k].kind
                 /\ numIndices(commands'[k]) = numIndices(commands[k])
            /\ (Len(commands) > 0 /\ commands[Len(commands)].kind # "draw") => ~ret'.merged]_vars

\* C11 witness: a Flush without error has executed three commands, two draws with
\* the same arguments and between them a command that is not a draw.
C11_Witness ==
  /\ Flushed
  /\ ret.err = NoErr
  /\ Len(ExecCalls) = 3
  /\ ExecCalls[1].kind = "draw"
  /\ ExecCalls[2].kind # "draw"
  /\ ExecCalls[3].kind = "draw"
  /\ SameArguments(ret.pre.submitted[1].d, ret.pre.submitted[2].d)

\* The number of draw-triangles commands among cmds.
NumDraws(cmds) == Cardinality({k \in 1..Len(cmds) : cmds[k].kind = "draw"})

\* C12: the pool of draw-triangles commands never holds more than PoolCap entries,
\* and a Flush that releases the queue's draw-triangles commands leaves in the pool
\* the entries it held plus the released ones up to PoolCap: what is released to a
\* full pool is discarded.
C12_Theorem ==
  /\ pool <= PoolCap
  /\ (Flushed /\ ret.err.call # "Begin") =>
       pool = IF ret.pre.pool + NumDraws(ret.pre.commands) <= PoolCap
              THEN ret.pre.pool + NumDraws(ret.pre.commands)
              ELSE PoolCap

\* C12 witness: a Flush has released more draw-triangles commands than the pool
\* had room for, and the pool is full.
C12_Witness ==
  /\ Flushed
  /\ ret.err.call # "Begin"
  /\ ret.pre.pool + NumDraws(ret.pre.commands) > PoolCap
  /\ pool = PoolCap

\* The ranges a and b of one backing array have no element in common.
Disjoint(a, b) ==
  \/ a.len = 0
  \/ b.len = 0
  \/ a.start + a.len <= b.start
  \/ b.start + b.len <= a.start

\* C13: the ranges returned by slice since the cursor was last set to zero (by a
\* new backing array or by lockAndReset) are pairwise disjoint ranges of the
\* backing array, each as long as requested, and lie within it.
C13_Theorem ==
  /\ \A i, j \in 1..Len(epochSlices) :
       i # j => Disjoint(epochSlices[i], epochSlices[j])
  /\ \A i \in 1..Len(epochSlices) :
       /\ 0 <= epochSlices[i].start
       /\ epochSlices[i].start + epochSlices[i].len <= backend
  /\ bret.op = "slice" =>
       /\ bret.len = bret.n * VertexFloatCount
       /\ epochSlices[Len(epochSlices)] = [start |-> bret.start, len |-> bret.len]

\* C13 witness: three slices that are not empty have been returned in one epoch,
\* which a failed lockAndReset did not end.
C13_Witness ==
  /\ Len(epochSlices) = 3
  /\ \A i \in 1..3 : epochSlices[i].len > 0
  /\ bret.op = "lockAndReset"
  /\ bret.ferr

\* The last two operations were slice calls.
TwoSlices == bret.op = "slice" /\ Len(bret.prev) = 1

\* C14 as claimed: two consecutive slice calls for m and n vertices return ranges
\* of m*VertexFloatCount and n*VertexFloatCount floats whose index ranges do not
\* overlap, also when the second call makes a new backing array.
C14_Original ==
  TwoSlices =>
    /\ bret.prev[1].len = bret.prev[1].n * VertexFloatCount
    /\ bret.len = bret.n * VertexFloatCount
    /\ Disjoint(bret.prev[1], bret)

\* C14 as amended: two consecutive slice calls for m and n vertices return ranges
\* of m*VertexFloatCount and n*VertexFloatCount floats; if the second call does
\* not make a new backing array, its range starts where the first one ends, in
\* the same array; if it does, its range starts at index 0 of the new array, and
\* the first range stays in the array that was left.
C14_Theorem ==
  TwoSlices =>
    /\ bret.prev[1].len = bret.prev[1].n * VertexFloatCount
    /\ bret.len = bret.n * VertexFloatCount
    /\ IF bret.grew
       THEN /\ bret.start = 0
            /\ epochSlices = <<[start |-> bret.start, len |-> bret.len]>>
            /\ backend >= bret.len
       ELSE /\ bret.start = bret.prev[1].start + bret.prev[1].len
            /\ Disjoint(bret.prev[1], bret)
            /\ bret.start + bret.len <= backend

\* C14 witness: the second of two consecutive slice calls made a new backing
\* array, and the two ranges, neither empty, have indices in common.
C14_Witness ==
  /\ TwoSlices
  /\ bret.grew
  /\ bret.len > 0
  /\ bret.prev[1].len > 0
  /\ ~Disjoint(bret.prev[1], bret)

\* The last operation of the backend was the return of lockAndReset.
Returned == bret.op = "lockAndReset"

\* C15 as claimed: when lockAndReset returns, the cursor is zero, whether f
\* succeeded or returned an error.
C15_Claim == Returned => pos = 0

\* C15, what the code does: when lockAndReset returns after f succeeded, the
\* cursor is zero; after f returned an error, the cursor, the backing array and
\* the counter are as f left them.
C15_Theorem ==
  Returned =>
    IF bret.ferr
    THEN /\ pos = bret.pre.pos
         /\ backend = bret.pre.backend
         /\ notFullyUsedTime = bret.pre.notFullyUsedTime
    ELSE pos = 0

\* C15 witness: lockAndReset has returned the error of f with slices handed out.
C15_Witness ==
  /\ Returned
  /\ bret.ferr
  /\ bret.pre.pos > 0
  /\ Len(epochSlices) > 0

\* The counter after a window that finds it at c and increments it.
Incremented(c) == IF c < maxNotFullyUsedTime THEN c + 1 ELSE c

\* C16 as claimed: at the return of lockAndReset the counter is incremented if the
\* cursor is below half of the length of the backing array and set to zero
\* otherwise, and the backing array is released, the counter going back to zero,
\* exactly when this was the 60th such window in a row.
C16_Original ==
  Returned =>
    IF 2 * bret.pre.pos < bret.pre.backend
    THEN IF bret.released
         THEN backend = 0 /\ notFullyUsedTime = 0
         ELSE notFullyUsedTime = Incremented(bret.pre.notFullyUsedTime)
    ELSE notFullyUsedTime = 0 /\ ~bret.released

\* A window is under-used when the smallest size a backing array may have for the
\* floats up to the cursor (the smallest size, doubled until it holds them) is
\* less than the length of the backing array.
UnderUsed(b, p) == verticesBackendFloat32Size(p) < b

\* C16 as amended: at the return of a lockAndReset whose f succeeded, the counter
\* is incremented if the window was under-used and set to zero otherwise; the
\* backing array is released, the counter going back to zero, exactly when the
\* window is the 60th under-used window in a row since the array was last
\* released; a lockAndReset whose f returned an error changes neither. A backing
\* array of the smallest size is never under-used and never released.
C16_Theorem ==
  /\ notFullyUsedTime = streak
  /\ notFullyUsedTime < maxNotFullyUsedTime
  /\ (Returned /\ ~bret.ferr) =>
       /\ bret.released <=>
            (UnderUsed(bret.pre.backend, bret.pre.pos)
               /\ bret.pre.streak = maxNotFullyUsedTime - 1)
       /\ bret.released => (backend = 0 /\ notFullyUsedTime = 0)
       /\ ~bret.released =>
            /\ backend = bret.pre.backend
            /\ notFullyUsedTime =
                 IF UnderUsed(bret.pre.backend, bret.pre.pos)
                 THEN bret.pre.notFullyUsedTime + 1
                 ELSE 0
       /\ bret.pre.backend <= MinBackendVertices * VertexFloatCount =>
            (~bret.released /\ notFullyUsedTime = 0)
  /\ (Returned /\ bret.ferr) =>
       /\ ~bret.released
       /\ backend = bret.pre.backend
       /\ notFullyUsedTime = bret.pre.notFullyUsedTime

\* C16 witness: lockAndReset has released the backing array, after 59 under-used
\* windows, in a window whose cursor was at half of the array.
C16_Witness ==
  /\ Returned
  /\ bret.released
  /\ bret.pre.streak = maxNotFullyUsedTime - 1
  /\ bret.pre.pos > 0
  /\ 2 * bret.pre.pos = bret.pre.backend
  /\ backend = 0

\* The lengths of the preserved uniform variables, in the order of their indices.
PreservedLengths ==
  <<2, 2 * ShaderImageCount, 2, 2, 2 * (ShaderImageCount - 1), 2, 2, 16>>

\* C17: the uniform list that prependPreservedUniforms builds for a draw has the
\* preserved entries at the positions 0 to 7, of 2, 2*4, 2, 2, 2*3, 2, 2 and 16
\* floats, and after them the uniforms of the caller, in their order and with
\* their values: its length is 8 plus the number of the caller's uniforms.
C17_Theorem ==
  Enqueued =>
    /\ Len(PreservedLengths) = PreservedUniformVariablesCount
    /\ Len(ret.built) = PreservedUniformVariablesCount + Len(ret.d.uniforms)
    /\ \A i \in 1..PreservedUniformVariablesCount :
         Len(ret.built[i]) = PreservedLengths[i]
    /\ \A i \in 1..Len(ret.d.uniforms) :
         ret.built[PreservedUniformVariablesCount + i] = ret.d.uniforms[i]

\* C17 witness: a draw with two uniforms of different values has been enqueued
\* after another draw.
C17_Witness ==
  /\ Enqueued
  /\ Len(submitted) = 2
  /\ Len(ret.d.uniforms) = 2
  /\ Len(ret.built) = PreservedUniformVariablesCount + 2
  /\ ret.built[PreservedUniformVariablesCount + 1] # ret.built[PreservedUniformVariablesCount + 2]

\* C18 as claimed: in the source texture sizes (preserved entry 1) built for a
\* draw, the two floats of every source image that is nil are zero, whatever
\* the float arena held before the draw was enqueued.
C18_Claim ==
  Enqueued =>
    \A i \in 1..ShaderImageCount :
      ret.d.srcs[i] = NilImage =>
        /\ ret.built[2][2 * i - 1] = F(0)
        /\ ret.built[2][2 * i] = F(0)

\* floor(x) of a coordinate.
Floor(x) == (x \div PixelUnit) * PixelUnit

\* The offset that the thresholds 3/16, 8/16 and 13/16 select for the
\* fractional part of x: 0, 5/16, 11/16 or 1.
Offset(x) ==
  LET f == x - Floor(x)
  IN CASE f * 16 < 3 * PixelUnit -> 0
       [] f * 16 < 8 * PixelUnit -> (5 * PixelUnit) \div 16
       [] f * 16 < 13 * PixelUnit -> (11 * PixelUnit) \div 16
       [] OTHER -> PixelUnit

\* adjustDestinationPixel is idempotent: applied again to a value it returned,
\* it returns that value.
Idempotent == \A i \in 2..Len(adjusted) : adjusted[i] = adjusted[1]

\* C19 as stated: adjustDestinationPixel is idempotent, and for every x,
\* negative or not, adjust(x) - floor(x) is the one of 0, 5/16, 11/16 and 1
\* that the thresholds select for the fractional part of x.
C19_Original ==
  /\ Idempotent
  /\ adjusted # <<>> => adjusted[1] - Floor(pixel) = Offset(pixel)

\* C19: adjustDestinationPixel is idempotent, and adjust(x) is the float32
\* nearest to floor(x) plus the offset that the thresholds select; the
\* difference adjust(x) - floor(x) is exactly that offset for every x, negative
\* or not, of magnitude below 2^20, where the float32 values are at most 1/16
\* apart.
C19_Theorem ==
  /\ Idempotent
  /\ adjusted # <<>> =>
       /\ adjusted[1] = Round32(Floor(pixel) + Offset(pixel))
       /\ Abs(pixel) < 2 ^ (Float32Precision - 4) * PixelUnit =>
            adjusted[1] - Floor(pixel) = Offset(pixel)

\* C19 witness: the function has been applied twice to a negative coordinate
\* whose fractional part lies between two thresholds, and returned a value
\* other than the coordinate.
C19_Witness ==
  /\ Len(adjusted) >= 2
  /\ pixel < 0
  /\ Offset(pixel) = (11 * PixelUnit) \div 16
  /\ adjusted[1] # pixel
  /\ adjusted[1] - Floor(pixel) = Offset(pixel)

\* The vertex buffers of the SetVertices calls log[k..], in call order.
RECURSIVE UploadedVertices(_, _)
UploadedVertices(log, k) ==
  IF k > Len(log) THEN <<>>
  ELSE (IF log[k].op = "SetVertices" THEN <<log[k].vertices>> ELSE <<>>)
       \o UploadedVertices(log, k + 1)

\* The vertex floats of the chunks of the submitted draws sub[k..], in enqueue
\* order, vs and ne being the vertex floats and the number of indices of the
\* chunk so far: a chunk ends before each draw that the capacity test moved to
\* the next vertex buffer, and a chunk without any index is not uploaded.
RECURSIVE ChunkVertices(_, _, _, _)
ChunkVertices(sub, k, vs, ne) ==
  LET done == IF ne > 0 THEN <<vs>> ELSE <<>> IN
  IF k > Len(sub) THEN done
  ELSE IF k > 1 /\ sub[k].split
  THEN done \o ChunkVertices(sub, k + 1, sub[k].d.vertices, Len(sub[k].d.indices))
  ELSE ChunkVertices(sub, k + 1, vs \o sub[k].d.vertices, ne + Len(sub[k].d.indices))

\* The vertex number e of the vertex floats vs, <<>> if vs has no such vertex.
VertexAt(vs, e) ==
  IF (e + 1) * VertexFloatCount <= Len(vs)
  THEN SubSeq(vs, e * VertexFloatCount + 1, (e + 1) * VertexFloatCount)
  ELSE <<>>

\* For every index uploaded by the SetVertices calls log[k..], the vertex it
\* addresses in the vertex buffer of its call.
RECURSIVE UploadedAddressed(_, _)
UploadedAddressed(log, k) ==
  IF k > Len(log) THEN <<>>
  ELSE (IF log[k].op = "SetVertices"
        THEN [j \in 1..Len(log[k].indices) |-> VertexAt(log[k].vertices, log[k].indices[j])]
        ELSE <<>>)
       \o UploadedAddressed(log, k + 1)

\* For every index of the submitted draws sub[k..], the vertex it addresses in
\* the vertices of its draw.
RECURSIVE SubmittedAddressed(_, _)
SubmittedAddressed(sub, k) ==
  IF k > Len(sub) THEN <<>>
  ELSE [j \in 1..Len(sub[k].d.indices) |-> VertexAt(sub[k].d.vertices, sub[k].d.indices[j])]
       \o SubmittedAddressed(sub, k + 1)

\* Each SetVertices call of the last flush uploaded the vertex floats of the
\* draws of its chunk, and every uploaded index addresses in its buffer the
\* vertex it addressed in its draw.
UploadsMatchSubmitted ==
  LET up == UploadedAddressed(calls, 1)
      orig == SubmittedAddressed(ret.pre.submitted, 1)
  IN /\ UploadedVertices(calls, 1) = ChunkVertices(ret.pre.submitted, 1, <<>>, 0)
     /\ Len(up) = Len(orig)
     /\ \A p \in 1..Len(up) : orig[p] # <<>> => up[p] = orig[p]

\* C20 as claimed: after a Flush in which no driver call failed, whatever draws
\* (draws without indices included) and other commands were enqueued, each
\* SetVertices call uploaded exactly the vertex floats submitted by the draws of
\* its chunk, in enqueue order, and every rebased index addresses in the
\* uploaded buffer the vertex it addressed in the submitted data.
C20_Claim == (Flushed /\ ret.err = NoErr) => UploadsMatchSubmitted

\* The submitted draws sub[k..] have a chunk without any index that is followed
\* by another chunk, ne being the number of indices of the chunk so far.
RECURSIVE EmptyChunkBefore(_, _, _)
EmptyChunkBefore(sub, k, ne) ==
  IF k > Len(sub) THEN FALSE
  ELSE IF k > 1 /\ sub[k].split
  THEN ne = 0 \/ EmptyChunkBefore(sub, k + 1, Len(sub[k].d.indices))
  ELSE EmptyChunkBefore(sub, k + 1, ne + Len(sub[k].d.indices))

\* C20, what the code guarantees: the uploads match the submitted draws after
\* every Flush without a failed call of a queue in which no chunk without
\* indices is followed by another chunk.
C20_Theorem ==
  (Flushed /\ ret.err = NoErr /\ ~EmptyChunkBefore(ret.pre.submitted, 1, 0))
    => UploadsMatchSubmitted

\* C20 witness: a Flush without a failed call, of a queue that holds a draw
\* with vertices and without indices and in which no chunk without indices is
\* followed by another chunk, uploaded two vertex buffers.
C20_Witness ==
  /\ Flushed
  /\ ret.err = NoErr
  /\ ~EmptyChunkBefore(ret.pre.submitted, 1, 0)
  /\ Cardinality(CallsOf("SetVertices")) >= 2
  /\ \E k \in 1..Len(ret.pre.submitted) :
       /\ ret.pre.submitted[k].d.indices = <<>>
       /\ ret.pre.submitted[k].d.vertices # <<>>

\* The sum of the index counts of the commands cs[1..n].
RECURSIVE IndexCountBefore(_, _)
IndexCountBefore(cs, n) ==
  IF n = 0 THEN 0 ELSE IndexCountBefore(cs, n - 1) + numIndices(cs[n])

\* The SetVertices call of the chunk of call i of the last flush: the last one
\* before i, 0 if there is none.
ChunkUpload(i) ==
  LET S == {j \in CallsOf("SetVertices") : j < i}
  IN IF S = {} THEN 0 ELSE Maximum(S)

\* The sum of the index counts of the draw-triangles commands executed by the
\* calls j+1 .. i-1 of the last flush.
RECURSIVE DrawnBetween(_, _)
DrawnBetween(j, i) ==
  IF j + 1 >= i THEN 0
  ELSE (IF calls[i - 1].op = "Exec" /\ calls[i - 1].kind = "draw"
        THEN calls[i - 1].nindices ELSE 0)
       + DrawnBetween(j, i - 1)

\* The calls of the last flush that gave the driver a draw: the Exec of a
\* draw-triangles command with indices.
DriverDraws ==
  {i \in CallsOf("Exec") : calls[i].kind = "draw" /\ calls[i].nindices > 0}

\* C21: in a Flush, the index offset given to the driver for a draw-triangles
\* command is the sum of the index counts of the draw-triangles commands before
\* it in its chunk (zero for the first, from zero again in every chunk, whatever
\* other commands lie between), and the index buffer uploaded for the chunk
\* holds, from that offset on, the indices the queue held for the command.
C21_Theorem ==
  Flushed =>
    \A i \in DriverDraws :
      LET u == ChunkUpload(i)
          off == DrawnBetween(u, i)
          n == calls[i].nindices
          g == IndexCountBefore(ret.pre.commands, calls[i].pos - 1)
      IN /\ u > 0
         /\ calls[i].indexOffset = off
         /\ off + n <= Len(calls[u].indices)
         /\ SubSeq(calls[u].indices, off + 1, off + n)
              = SubSeq(ret.pre.indices, g + 1, g + n)

\* C21 witness: a Flush executed, in one chunk, a draw-triangles command, then
\* a command of another kind, then a draw-triangles command whose index offset
\* is the index count of the first.
C21_Witness ==
  /\ Flushed
  /\ \E i \in DriverDraws :
       /\ calls[i].indexOffset > 0
       /\ calls[i - 1].op = "Exec"
       /\ calls[i - 1].kind # "draw"
       /\ calls[i].indexOffset = DrawnBetween(ChunkUpload(i), i)

\* The vertex ranges of the draw-triangles commands cs[k..] follow one another
\* from position at on and end at the end of the vertex array vs.
RECURSIVE RangesCover(_, _, _, _)
RangesCover(cs, k, at, vs) ==
  IF k > Len(cs) THEN at = Len(vs)
  ELSE IF cs[k].kind # "draw" THEN RangesCover(cs, k + 1, at, vs)
  ELSE /\ cs[k].vertices.start = at
       /\ cs[k].vertices.len >= 0
       /\ RangesCover(cs, k + 1, at + cs[k].vertices.len, vs)

\* C23: in every state of the queue the vertex ranges of the queued
\* draw-triangles commands, in queue order, are contiguous and disjoint and
\* cover the vertex array exactly (the range of the last one is a suffix of
\* it), and the index counts of the commands add up to the length of the index
\* array; a merge changes the range and the count of the last command only,
\* extending them by the vertices and the indices of the merged draw.
C23_Theorem ==
  /\ [](/\ RangesCover(commands, 1, 0, vertices)
        /\ IndexCountBefore(commands, Len(commands)) = Len(indices))
  /\ [][(ret'.op = "EnqueueDrawTrianglesCommand" /\ ~ret'.panic /\ ret'.merged) =>
          LET n == Len(commands)
              old == commands[n]
              new == commands'[n]
          IN /\ Len(commands') = n
             /\ \A k \in 1..(n - 1) :
                  /\ commands'[k].kind = commands[k].kind
                  /\ commands[k].kind = "draw" =>
                       /\ commands'[k].vertices = commands[k].vertices
                       /\ commands'[k].nindices = commands[k].nindices
             /\ new.vertices.start = old.vertices.start
             /\ new.vertices.len = old.vertices.len + Len(ret'.d.vertices)
             /\ new.nindices = old.nindices + Len(ret'.d.indices)
             /\ CommandVertices(new, vertices')
                  = CommandVertices(old, vertices) \o ret'.d.vertices]_vars

\* C23 witness: the queue holds two draw-triangles commands with a command of
\* another kind between them, and the last enqueue merged a draw into the
\* second, whose range is larger than the merged draw's vertices.
C23_Witness ==
  /\ Enqueued
  /\ ret.merged
  /\ Len(commands) = 3
  /\ commands[1].kind = "draw"
  /\ commands[2].kind # "draw"
  /\ commands[3].kind = "draw"
  /\ commands[3].vertices.start = commands[1].vertices.len
  /\ commands[3].vertices.len > Len(ret.d.vertices)

\* The first command of the chunk that the flush in progress formed last.
FirstOfChunk == commands[Len(commands) - Len(flushLoop.cs) - flushLoop.nc + 1]

\* C24: a flush that has begun returns, every driver call returning: each chunk
\* it forms holds at least one command (the first command of a chunk is taken
\* even if it is a draw that exceeds the vertex capacity by itself), so each
\* iteration leaves fewer commands than it found.
C24_Theorem ==
  /\ [](flushLoop.at = "chunk" => flushLoop.nc >= 1)
  /\ [][flushLoop'.at = "chunk" => Len(flushLoop'.cs) < Len(flushLoop.cs)]_vars
  /\ (flushLoop.at # "idle") ~> (flushLoop.at = "idle")

\* C24 witness: a flush formed a chunk of one command, a draw with more vertex
\* floats than the vertex capacity, and has commands left.
C24_Witness ==
  /\ flushLoop.at = "chunk"
  /\ flushLoop.nc = 1
  /\ Len(flushLoop.cs) > 0
  /\ FirstOfChunk.kind = "draw"
  /\ numVertices(FirstOfChunk) > ChunkCapacity

\* Thread t is inside lockAndReset, between the start of f and its return.
InWindow(t) == pc[t].at = "locked" /\ pc[t].op = "lockAndReset"

\* The slices of the epoch are pairwise disjoint.
EpochDisjoint ==
  \A i, j \in 1..Len(epochSlices) :
    i < j => Disjoint(epochSlices[i], epochSlices[j])

\* C22: with several threads calling Slice and LockAndReset concurrently, at
\* most one thread is inside slice or lockAndReset past the lock; while a
\* thread is between the start of f and the return of its lockAndReset, no
\* step of another thread changes the backing array, the cursor, the counter
\* or the slices of the epoch, and a Slice called meanwhile returns only
\* afterwards; the ranges returned in one epoch never overlap.
C22_Theorem ==
  /\ [](/\ \A t, u \in Threads :
             (pc[t].at = "locked" /\ pc[u].at = "locked") => t = u
        /\ \A t \in Threads : pc[t].at = "locked" <=> mutex = t
        /\ EpochDisjoint)
  /\ [][\A t \in Threads :
          (InWindow(t) /\ pc'[t] = pc[t]) =>
            /\ UNCHANGED <<backend, pos, notFullyUsedTime, epochSlices>>
            /\ bret'.op # "slice"]_vars

\* C22 witness: two slices of one epoch have been returned, a thread is inside
\* lockAndReset, f running, and another thread has called Slice and waits for
\* the mutex.
C22_Witness ==
  /\ Len(epochSlices) = 2
  /\ epochSlices[1].len > 0
  /\ epochSlices[2].len > 0
  /\ \E t, u \in Threads :
       /\ InWindow(t)
       /\ pc[u].at = "Lock"
       /\ pc[u].op = "slice"
       /\ pc[u].n > 0

====
